---- MODULE Spec2Model ----
(***************************************************************************)
(* Model of the roof-analysis job pipelines of vultr-3d:                   *)
(*   roof_server.py          Flask server, registry job_status (no lock)   *)
(*   server.py               Flask server, registry active_jobs, jobs_lock *)
(*   process_roof_images.py  command-line script, status.json/result.json  *)
(*   roof_measurements.py    measurement extraction used by the script     *)
(* The three programs are separate processes; the variable `variant` says  *)
(* which of them a behaviour is a run of; the fourth value, "function",    *)
(* is a call of one numerical function of these programs on an input of    *)
(* its own (variable calc).  External tools (COLMAP,                       *)
(* instant-ngp, nerfstudio, trimesh, the file system) are nondeterministic *)
(* inputs of the actions that call them.  The fields message, timestamp,   *)
(* createdAt, updatedAt and modelUrl of the records are not modelled.      *)
(***************************************************************************)
EXTENDS Integers, Sequences, FiniteSets, TLC

\* ---------------------------------------------------------------- bounds
MaxImages == 3
MaxReaders == 2
MaxFaces == 3      \* faces of a mesh given face by face
MaxArea == 4       \* largest area of a face, in units of 1/AreaDen square metres
MaxClusters == 2   \* clusters of face normals found in a mesh
MaxNoise == 1      \* faces of a mesh that belong to no cluster
MaxComponents == 2 \* connected components of a mesh
MaxRigImages == 5  \* images given to the synthetic camera rig
MaxEntry == 1      \* largest absolute value of an entry of a transform matrix
MaxQuatDen == 3    \* largest denominator of the components of a quaternion
MaxRandom == 2     \* states of the random number generator
MaxAngle == 3      \* largest angle of a face normal, in units of AngleStep degrees
MaxExtent == 2     \* largest extent of a box mesh along an axis, in metres

\* two submissions are in flight; a client may send the job id of the other
Threads == {1, 2}
JobIds == {1, 2}
Readers == 1..MaxReaders

VARIABLES
  variant,      \* which program runs: "roof_server", "server" or "script"
  job_status,   \* roof_server.py: registry dict job id -> status dict
  images_dir,   \* roof_server.py: WORKSPACE_PATH/<job id>/images, a set of files
  transforms,   \* roof_server.py: <job dir>/colmap/transforms.json, per job id
  model_ingp,   \* roof_server.py: OUTPUT_PATH/<job id>/model.ingp
  model_obj,    \* roof_server.py: OUTPUT_PATH/<job id>/model.obj
  ngp_path,     \* roof_server.py: recently written files under INSTANT_NGP_PATH
  rs,           \* roof_server.py: the request/worker thread of each submission
  active_jobs,  \* server.py: registry dict job id -> job dict
  jobs_lock,    \* server.py: threading.Lock, TRUE when held
  sv,           \* server.py: the request/worker thread of each submission
  cl,           \* server.py: the cleanup request
  rd,           \* readers of the registry (status / model / list requests)
  pr,           \* process_roof_images.py: the script run and its files
  calc          \* a call of one of the numerical functions on its own: the
                \* function, its input and the results of the calls made so far

vars == <<variant, job_status, images_dir, transforms, model_ingp, model_obj,
          ngp_path, rs, active_jobs, jobs_lock, sv, cl, rd, pr, calc>>

rsVars == <<job_status, images_dir, transforms, model_ingp, model_obj, ngp_path, rs>>
svVars == <<active_jobs, jobs_lock, sv, cl>>

\* ------------------------------------------------------------- dictionaries
\* A Python dict is a function whose domain is the set of its keys.
EmptyDict == <<>>
Put(d, k, v) == [x \in (DOMAIN d) \cup {k} |-> IF x = k THEN v ELSE d[x]]
\* dict.update(other): the keys of other are added or overwritten
Update(d, other) ==
  [x \in (DOMAIN d) \cup (DOMAIN other) |-> IF x \in DOMAIN other THEN other[x] ELSE d[x]]

None == <<>>

\* ------------------------------------------------------------------ reports
\* A report is a dict from key path to an abstract value.
AreaPitchDims ==
  {"area.total", "area.unit", "pitch.primary", "pitch.degrees",
   "dimensions.length", "dimensions.width", "dimensions.height"}

FeatureCounts == {"features.chimneys", "features.vents", "features.skylights"}

\* roof_server.py calculate_roof_measurements, the measurements dictionary
RS_measurements ==
  [k \in AreaPitchDims \cup FeatureCounts |->
     CASE k = "area.unit" -> "sq_ft"
       [] k = "features.chimneys" -> "0"
       [] k = "features.vents" -> "4"
       [] k = "features.skylights" -> "0"
       [] OTHER -> "measured"]

\* roof_server.py generate_estimated_measurements
generate_estimated_measurements ==
  [k \in AreaPitchDims \cup FeatureCounts |->
     IF k = "area.unit" THEN "sq_ft" ELSE "random"]

\* roof_server.py calculate_roof_measurements(model_path); load is the outcome
\* of `import trimesh; trimesh.load(model_path)` and of the numpy calls
RS_calculate_roof_measurements(load) ==
  IF load = "loaded" THEN RS_measurements ELSE generate_estimated_measurements

\* ------------------------------------------------------- roof_server.py
MinImages == 3

allowed_extensions == {".jpg", ".jpeg", ".png", ".bmp", ".tiff", ".tif"}
fallback_extensions == {".jpg", ".jpeg", ".png", ".tif", ".tiff"}

\* str.lower() on the extensions that occur in the model
Lower(e) == CASE e = ".JPG" -> ".jpg" [] e = ".BMP" -> ".bmp" [] OTHER -> e

\* a file is <<stem, extension>>
is_valid_image(f) == Lower(f[2]) \in allowed_extensions

\* the files of one upload: nj *.jpg, nb *.bmp and nt *.txt files
Upload(nj, nb, nt) ==
  {<<i, ".jpg">> : i \in 1..nj} \cup {<<i, ".bmp">> : i \in 1..nb}
    \cup {<<i, ".txt">> : i \in 1..nt}

\* the uploads tried: one image too few up to MaxImages images, as many images
\* as required of which one is a .bmp, and an upload without any image
Uploads ==
  {Upload(n, 0, 0) : n \in (MinImages - 1)..MaxImages}
    \cup {Upload(MinImages - 1, 1, 0), Upload(0, 0, 1)}

\* a to_dict that leaves the measurements out
to_dict_without_measurements(self) ==
  LET base == [status |-> self.status, progress |-> self.progress]
  IN  IF self.error # "" THEN Put(base, "error", self.error) ELSE base

\* JobStatus.to_dict
to_dict(self) ==
  LET base == [status |-> self.status, progress |-> self.progress]
      withM == IF DOMAIN self.measurements # {}
               THEN Put(base, "measurements", self.measurements) ELSE base
  IN  IF self.error # "" THEN Put(withM, "error", self.error) ELSE withM

NoJobStatus == [status |-> "none", progress |-> 0, measurements |-> None, error |-> ""]

\* JobStatus.__init__
JobStatus_init == [status |-> "initialized", progress |-> 0, measurements |-> None, error |-> ""]

\* JobStatus.update
JobStatus_update(self, status, progress) ==
  [self EXCEPT !.status = status, !.progress = progress]

\* JobStatus.complete
JobStatus_complete(self, measurements) ==
  [self EXCEPT !.status = "complete", !.progress = 100, !.measurements = measurements]

\* JobStatus.fail
JobStatus_fail(self, error_message) ==
  [self EXCEPT !.status = "error", !.error = error_message]

RSInitThread ==
  [pc |-> "idle", job_id |-> 0, job |-> NoJobStatus, success |-> FALSE, result |-> "",
   last |-> <<"", "">>]

\* the outcomes of the COLMAP runs and of convert_colmap_to_transforms:
\* write_error is a failing open(transforms_path, 'w'), dump_error a json.dump
\* that raises after open has created the file
ColmapOutcomes ==
  {"called_process_error", "exception", "no_reconstruction", "no_text_files",
   "parse_error", "write_error", "dump_error", "converted"}

ColmapFallbackOutcomes ==
  {"called_process_error", "exception", "no_reconstruction", "no_text_files"}

\* an off-by-one threshold
not_enough_images_off_by_one(image_files) == Cardinality(image_files) < MinImages - 1

\* extract_camera_params: `if len(image_files) < 3`
not_enough_images(image_files) == Cardinality(image_files) < MinImages

\* create_fallback_transforms: the result and the transforms.json files after it
create_fallback_transforms(tr, id, t, dir, write_ok) ==
  LET image_files == {f \in dir : Lower(f[2]) \in fallback_extensions}
  IN  IF Cardinality(image_files) < MinImages
      THEN [success |-> FALSE, result |-> "Not enough images for 3D reconstruction",
            transforms |-> tr]
      ELSE IF ~write_ok
      THEN [success |-> FALSE, result |-> "Error creating fallback transforms",
            transforms |-> tr]
      ELSE [success |-> TRUE, result |-> "transforms.json",
            transforms |-> Put(tr, id, [tag |-> "synthetic", owner |-> t,
                                        frames |-> image_files])]

\* extract_camera_params after its job.update: the result and transforms.json
extract_camera_params(tr, id, t, dir, outcome, write_ok) ==
  LET image_files == {f \in dir : is_valid_image(f)}
  IN  IF not_enough_images(image_files)
      THEN [success |-> FALSE, result |-> "Not enough images", transforms |-> tr]
      ELSE IF outcome \in ColmapFallbackOutcomes
      THEN create_fallback_transforms(tr, id, t, dir, write_ok)
      ELSE LET after == CASE outcome = "converted" ->
                                  Put(tr, id, [tag |-> "recovered", owner |-> t,
                                               frames |-> image_files])
                               [] outcome = "dump_error" ->
                                  Put(tr, id, [tag |-> "partial", owner |-> t,
                                               frames |-> {}])
                               [] OTHER -> tr
           IN  IF id \in DOMAIN after
               THEN [success |-> TRUE, result |-> "transforms.json", transforms |-> after]
               ELSE [success |-> FALSE, result |-> "Failed to generate transforms.json file",
                     transforms |-> after]

\* process_images (route /api/process): save the valid files, create the record,
\* start the worker thread
RS_process_images(t, id, files) ==
  /\ variant = "roof_server"
  /\ rs[t].pc = "idle"
  /\ LET saved_files == {f \in files : is_valid_image(f)}
     IN  IF saved_files = {}
         THEN /\ rs' = [rs EXCEPT ![t].pc = "rejected"]
              /\ UNCHANGED <<job_status, images_dir>>
         ELSE /\ images_dir' = [images_dir EXCEPT ![id] = @ \cup saved_files]
              /\ job_status' = Put(job_status, id, [status |-> "uploading", progress |-> 10])
              /\ rs' = [rs EXCEPT ![t].pc = "process_job", ![t].job_id = id]
  /\ UNCHANGED <<variant, calc, transforms, model_ingp, model_obj, ngp_path, svVars, rd, pr>>

\* process_job: job = JobStatus(job_id)
RS_process_job(t) ==
  /\ variant = "roof_server"
  /\ rs[t].pc = "process_job"
  /\ job_status' = Put(job_status, rs[t].job_id, to_dict(JobStatus_init))
  /\ rs' = [rs EXCEPT ![t].pc = "extract_camera_params", ![t].job = JobStatus_init]
  /\ UNCHANGED <<variant, calc, images_dir, transforms, model_ingp, model_obj, ngp_path,
                 svVars, rd, pr>>

\* extract_camera_params: job.update("processing", ..., 20)
RS_extract_update(t) ==
  /\ variant = "roof_server"
  /\ rs[t].pc = "extract_camera_params"
  /\ LET job == JobStatus_update(rs[t].job, "processing", 20)
     IN  /\ job_status' = Put(job_status, rs[t].job_id, to_dict(job))
         /\ rs' = [rs EXCEPT ![t].pc = "colmap", ![t].job = job]
  /\ UNCHANGED <<variant, calc, images_dir, transforms, model_ingp, model_obj, ngp_path,
                 svVars, rd, pr>>

\* extract_camera_params: the image count, COLMAP, the conversion or the fallback
RS_extract_camera_params(t, outcome, write_ok) ==
  /\ variant = "roof_server"
  /\ rs[t].pc = "colmap"
  /\ LET r == extract_camera_params(transforms, rs[t].job_id, t,
                                    images_dir[rs[t].job_id], outcome, write_ok)
     IN  /\ transforms' = r.transforms
         /\ rs' = [rs EXCEPT ![t].pc = "extracted", ![t].success = r.success,
                             ![t].result = r.result,
                             ![t].last = IF r.result = "Not enough images"
                                         THEN <<"", "">> ELSE <<"colmap", outcome>>]
  /\ UNCHANGED <<variant, calc, job_status, images_dir, model_ingp, model_obj, ngp_path,
                 svVars, rd, pr>>


TrainOutcomes == {"called_process_error", "exception", "snapshot", "autosaved", "nothing"}
ExportOutcomes == {"called_process_error", "exception", "saved", "autosaved", "nothing"}

\* the cube written by create_fallback_mesh
FallbackMesh(t) == [kind |-> "fallback", owner |-> t]

\* create_fallback_mesh(obj_path): model.obj after the call (mesh_ok: open and write succeed)
create_fallback_mesh(obj, id, t, mesh_ok) ==
  IF mesh_ok THEN Put(obj, id, FallbackMesh(t)) ELSE obj

\* the os.walk of INSTANT_NGP_PATH: the files modified in the last 5 minutes, by mtime;
\* own is the file this call's subprocess has just written there, if any
RecentFiles(files, own, recent) == IF recent THEN files \o own ELSE own

Last(seq) == seq[Len(seq)]

\* process_job: `if not success: job.fail(result); return`, else generate_nerf_model's
\* job.update("processing", ..., 50)
RS_generate_update(t) ==
  /\ variant = "roof_server"
  /\ rs[t].pc = "extracted"
  /\ LET job == IF rs[t].success
                THEN JobStatus_update(rs[t].job, "processing", 50)
                ELSE JobStatus_fail(rs[t].job, rs[t].result)
     IN  /\ job_status' = Put(job_status, rs[t].job_id, to_dict(job))
         /\ rs' = [rs EXCEPT ![t].pc = IF rs[t].success THEN "train" ELSE "done",
                             ![t].job = job,
                             ![t].last = IF rs[t].success THEN <<"", "">> ELSE @]
  /\ UNCHANGED <<variant, calc, images_dir, transforms, model_ingp, model_obj, ngp_path,
                 svVars, rd, pr>>

\* generate_nerf_model: the training run, the search for a snapshot, then either
\* job.update("processing", ..., 80) or the fallback mesh
RS_generate_nerf_model(t, outcome, recent, mesh_ok) ==
  /\ variant = "roof_server"
  /\ rs[t].pc = "train"
  /\ LET id == rs[t].job_id
         own == IF outcome = "autosaved" THEN <<t>> ELSE <<>>
         ingp_files == RecentFiles(ngp_path.ingp, own, recent)
         ingp == IF outcome = "snapshot" THEN Put(model_ingp, id, [owner |-> t])
                 ELSE IF id \notin DOMAIN model_ingp /\ ingp_files # <<>>
                 THEN Put(model_ingp, id, [owner |-> Last(ingp_files)])
                 ELSE model_ingp
         obj == create_fallback_mesh(model_obj, id, t, mesh_ok)
     IN  CASE outcome = "exception" ->
                /\ rs' = [rs EXCEPT ![t].pc = "generated", ![t].success = FALSE,
                                    ![t].result = "Unexpected error", ![t].last = <<"train", outcome>>]
                /\ UNCHANGED <<job_status, model_ingp, model_obj, ngp_path>>
           [] outcome = "called_process_error" ->
                /\ model_obj' = obj
                /\ rs' = [rs EXCEPT ![t].pc = "generated", ![t].success = id \in DOMAIN obj,
                                    ![t].result = IF id \in DOMAIN obj THEN "model.obj"
                                                  ELSE "Error running Instant NGP",
                                    ![t].last = <<"train", outcome>>]
                /\ UNCHANGED <<job_status, model_ingp, ngp_path>>
           [] OTHER ->
                /\ ngp_path' = [ngp_path EXCEPT !.ingp = @ \o own]
                /\ model_ingp' = ingp
                /\ IF id \in DOMAIN ingp
                   THEN LET job == JobStatus_update(rs[t].job, "processing", 80)
                        IN  /\ job_status' = Put(job_status, id, to_dict(job))
                            /\ rs' = [rs EXCEPT ![t].pc = "export", ![t].job = job]
                            /\ UNCHANGED model_obj
                   ELSE /\ model_obj' = obj
                        /\ rs' = [rs EXCEPT ![t].pc = "generated",
                                            ![t].success = id \in DOMAIN obj,
                                            ![t].result = IF id \in DOMAIN obj THEN "model.obj"
                                                          ELSE "Failed to generate 3D model",
                                            ![t].last = <<"train", outcome>>]
                        /\ UNCHANGED job_status
  /\ UNCHANGED <<variant, calc, images_dir, transforms, svVars, rd, pr>>

\* export_model: the export run, the search for a mesh, the fallback mesh
RS_export_model(t, outcome, recent, mesh_ok) ==
  /\ variant = "roof_server"
  /\ rs[t].pc = "export"
  /\ LET id == rs[t].job_id
         from == model_ingp[id].owner
         own == IF outcome = "autosaved" THEN <<from>> ELSE <<>>
         obj_files == RecentFiles(ngp_path.obj, own, recent)
         cube == create_fallback_mesh(model_obj, id, t, mesh_ok)
         failed(msg) ==
           /\ model_obj' = cube
           /\ rs' = [rs EXCEPT ![t].pc = "generated", ![t].success = mesh_ok,
                               ![t].result = IF mesh_ok THEN "model.obj" ELSE msg,
                               ![t].last = <<"export", outcome>>]
           /\ UNCHANGED ngp_path
         found(obj) ==
           /\ model_obj' = obj
           /\ rs' = [rs EXCEPT ![t].pc = "generated", ![t].success = TRUE,
                               ![t].result = "model.obj", ![t].last = <<"export", outcome>>]
           /\ ngp_path' = [ngp_path EXCEPT !.obj = @ \o own]
     IN  CASE outcome = "called_process_error" -> failed("Error exporting model")
           [] outcome = "exception" -> failed("Unexpected error")
           [] outcome = "saved" -> found(Put(model_obj, id, [kind |-> "real", owner |-> from]))
           [] OTHER ->
                IF id \in DOMAIN model_obj THEN found(model_obj)
                ELSE IF obj_files # <<>>
                THEN found(Put(model_obj, id, [kind |-> "real", owner |-> Last(obj_files)]))
                ELSE failed("Failed to export model to OBJ format")
  /\ UNCHANGED <<variant, calc, job_status, images_dir, transforms, model_ingp, svVars, rd, pr>>

\* process_job: `if not success: job.fail(result); return`, else
\* job.update("processing", "Calculating measurements...", 90)
RS_measure_update(t) ==
  /\ variant = "roof_server"
  /\ rs[t].pc = "generated"
  /\ LET job == IF rs[t].success
                THEN JobStatus_update(rs[t].job, "processing", 90)
                ELSE JobStatus_fail(rs[t].job, rs[t].result)
     IN  /\ job_status' = Put(job_status, rs[t].job_id, to_dict(job))
         /\ rs' = [rs EXCEPT ![t].pc = IF rs[t].success THEN "measure" ELSE "done",
                             ![t].job = job,
                             ![t].last = IF rs[t].success THEN <<"", "">> ELSE @]
  /\ UNCHANGED <<variant, calc, images_dir, transforms, model_ingp, model_obj, ngp_path,
                 svVars, rd, pr>>

LoadOutcomes == {"loaded", "error"}

\* process_job: measurements = calculate_roof_measurements(model_path); job.complete(...)
RS_complete(t, load) ==
  /\ variant = "roof_server"
  /\ rs[t].pc = "measure"
  /\ LET job == JobStatus_complete(rs[t].job, RS_calculate_roof_measurements(load))
     IN  /\ job_status' = Put(job_status, rs[t].job_id, to_dict(job))
         /\ rs' = [rs EXCEPT ![t].pc = "done", ![t].job = job, ![t].last = <<"load", load>>]
  /\ UNCHANGED <<variant, calc, images_dir, transforms, model_ingp, model_obj, ngp_path,
                 svVars, rd, pr>>

RSInit ==
  /\ job_status = EmptyDict
  /\ images_dir = [id \in JobIds |-> {}]
  /\ transforms = EmptyDict
  /\ model_ingp = EmptyDict
  /\ model_obj = EmptyDict
  /\ ngp_path = [ingp |-> <<>>, obj |-> <<>>]
  /\ rs = [t \in Threads |-> RSInitThread]

RSNext ==
  \/ \E t \in Threads, id \in JobIds, files \in Uploads : RS_process_images(t, id, files)
  \/ \E t \in Threads : RS_process_job(t)
  \/ \E t \in Threads : RS_extract_update(t)
  \/ \E t \in Threads, outcome \in ColmapOutcomes, write_ok \in BOOLEAN :
       RS_extract_camera_params(t, outcome, write_ok)
  \/ \E t \in Threads : RS_generate_update(t)
  \/ \E t \in Threads, outcome \in TrainOutcomes, recent \in BOOLEAN, mesh_ok \in BOOLEAN :
       RS_generate_nerf_model(t, outcome, recent, mesh_ok)
  \/ \E t \in Threads, outcome \in ExportOutcomes, recent \in BOOLEAN, mesh_ok \in BOOLEAN :
       RS_export_model(t, outcome, recent, mesh_ok)
  \/ \E t \in Threads : RS_measure_update(t)
  \/ \E t \in Threads, load \in LoadOutcomes : RS_complete(t, load)

\* ------------------------------------------------------------ server.py
sv_extensions == {".png", ".jpg", ".jpeg"}

\* calculate_roof_measurements, the measurements dictionary
SV_measurements ==
  [k \in AreaPitchDims \cup FeatureCounts \cup
         {"area.sections", "pitch.all", "features.total_features",
          "accuracy.estimated_error_margin", "accuracy.confidence"} |->
     CASE k = "area.unit" -> "sq_ft"
       [] k = "accuracy.estimated_error_margin" -> "5%"
       [] k = "accuracy.confidence" -> "high"
       [] OTHER -> "measured"]

\* calculate_roof_measurements, the dictionary returned by `except Exception`
SV_fallback_measurements ==
  [k \in AreaPitchDims \cup FeatureCounts \cup
         {"area.estimated", "pitch.estimated", "dimensions.estimated",
          "features.estimated", "accuracy.estimated_error_margin",
          "accuracy.confidence", "accuracy.error"} |->
     CASE k = "area.total" -> "2000"
       [] k = "area.unit" -> "sq_ft"
       [] k = "pitch.primary" -> "6/12"
       [] k = "pitch.degrees" -> "26.6"
       [] k = "dimensions.length" -> "60"
       [] k = "dimensions.width" -> "40"
       [] k = "dimensions.height" -> "15"
       [] k \in FeatureCounts -> "0"
       [] k = "accuracy.estimated_error_margin" -> "20%"
       [] k = "accuracy.confidence" -> "low"
       [] k = "accuracy.error" -> "str(e)"
       [] OTHER -> "true"]

\* calculate_roof_measurements(model_path) once trimesh is imported
SV_calculate_roof_measurements(load) ==
  IF load = "loaded" THEN SV_measurements ELSE SV_fallback_measurements

\* an update that does not look for the job id first
update_job_status_unchecked(jobs, job_id, status, progress) ==
  Put(jobs, job_id, [status |-> status, progress |-> progress])

\* update_job_status, the body of its `with jobs_lock`
update_job_status(jobs, job_id, status, progress) ==
  IF job_id \in DOMAIN jobs
  THEN [jobs EXCEPT ![job_id] = Update(@, [status |-> status, progress |-> progress])]
  ELSE jobs

\* process_images, the body of its `with jobs_lock`
complete_job(jobs, job_id, measurements) ==
  IF job_id \in DOMAIN jobs
  THEN [jobs EXCEPT ![job_id] = Update(@, [status |-> "complete", progress |-> 100,
                                           measurements |-> measurements])]
  ELSE jobs

\* an acquire that does not wait
CanAcquireAlways(lock) == TRUE

\* threading.Lock.acquire: possible when the lock is free
CanAcquire(lock) == ~lock

SVInitThread ==
  [pc |-> "upload", held |-> FALSE, file_count |-> 0, measurements |-> None,
   last |-> <<"", "">>]

\* the places of process_roof_images and process_images that enter `with jobs_lock`
SVLockPoints ==
  {"create", "u5", "u10", "colmap", "u40", "train", "u80", "export", "u95",
   "complete", "except"}

\* the plain progress updates of process_images: progress written, next place
SVProgress ==
  [u5 |-> <<5, "u10">>, u10 |-> <<10, "colmap">>, u40 |-> <<40, "train">>,
   u80 |-> <<80, "export">>, u95 |-> <<95, "measure">>]

\* the subprocess steps of process_images: progress written on success, next place
SVTools ==
  [colmap |-> <<30, "u40">>, train |-> <<70, "u80">>, export |-> <<90, "u95">>]

SVToolOutcomes(pc) ==
  {"ok", "called_process_error", "exception"}
    \cup (IF pc = "export" THEN {"no_checkpoint"} ELSE {})

\* process_roof_images (route /api/process) up to the creation of the job entry
SV_process_roof_images(t, files) ==
  /\ variant = "server"
  /\ sv[t].pc = "upload"
  /\ LET file_count == Cardinality({f \in files : Lower(f[2]) \in sv_extensions})
     IN  sv' = [sv EXCEPT ![t].pc = IF Cardinality(files) < MinImages
                                       \/ file_count < MinImages
                                    THEN "rejected" ELSE "create",
                          ![t].file_count = file_count]
  /\ UNCHANGED <<variant, calc, rsVars, active_jobs, jobs_lock, cl, rd, pr>>

\* `with jobs_lock:` entered by a request or worker thread
SV_acquire(t) ==
  /\ variant = "server"
  /\ sv[t].pc \in SVLockPoints
  /\ ~sv[t].held
  /\ CanAcquire(jobs_lock)
  /\ jobs_lock' = TRUE
  /\ sv' = [sv EXCEPT ![t].held = TRUE]
  /\ UNCHANGED <<variant, calc, rsVars, active_jobs, cl, rd, pr>>

\* process_roof_images: create the job entry, leave the lock, start the thread
SV_create_job(t) ==
  /\ variant = "server"
  /\ sv[t].pc = "create" /\ sv[t].held
  /\ active_jobs' = Put(active_jobs, t, [status |-> "uploading", progress |-> 0,
                                         imageCount |-> sv[t].file_count])
  /\ jobs_lock' = FALSE
  /\ sv' = [sv EXCEPT ![t].pc = "u5", ![t].held = FALSE]
  /\ UNCHANGED <<variant, calc, rsVars, cl, rd, pr>>

\* process_images: update_job_status(job_id, "processing", n, ...)
SV_update_job_status(t) ==
  /\ variant = "server"
  /\ sv[t].pc \in DOMAIN SVProgress /\ sv[t].held
  /\ active_jobs' = update_job_status(active_jobs, t, "processing", SVProgress[sv[t].pc][1])
  /\ jobs_lock' = FALSE
  /\ sv' = [sv EXCEPT ![t].pc = SVProgress[sv[t].pc][2], ![t].held = FALSE]
  /\ UNCHANGED <<variant, calc, rsVars, cl, rd, pr>>

\* process_images: a subprocess.run (colmap, ns-train, ns-export) and the update
\* that follows it: progress on success, "error" from `except CalledProcessError`
\* or from the outer `except Exception`.  The outcome of the run is fixed before
\* the lock is taken and is read here.
SV_run_tool(t, outcome) ==
  /\ variant = "server"
  /\ sv[t].pc \in DOMAIN SVTools /\ sv[t].held
  /\ outcome \in SVToolOutcomes(sv[t].pc)
  /\ active_jobs' = IF outcome = "ok"
                    THEN update_job_status(active_jobs, t, "processing", SVTools[sv[t].pc][1])
                    ELSE update_job_status(active_jobs, t, "error", 0)
  /\ jobs_lock' = FALSE
  /\ sv' = [sv EXCEPT ![t].pc = IF outcome = "ok" THEN SVTools[sv[t].pc][2] ELSE "done",
                      ![t].held = FALSE,
                      ![t].last = IF outcome = "ok" THEN @ ELSE <<sv[t].pc, outcome>>]
  /\ UNCHANGED <<variant, calc, rsVars, cl, rd, pr>>

SVMeasureOutcomes == {"no_glb", "import_error", "write_error", "loaded", "error"}

\* process_images step 4: find the .glb, calculate_roof_measurements, write
\* measurements.json
SV_calculate(t, outcome) ==
  /\ variant = "server"
  /\ sv[t].pc = "measure"
  /\ sv' = [sv EXCEPT ![t].pc = IF outcome \in LoadOutcomes THEN "complete" ELSE "except",
                      ![t].measurements = IF outcome \in LoadOutcomes
                                          THEN SV_calculate_roof_measurements(outcome)
                                          ELSE None,
                      ![t].last = <<"load", outcome>>]
  /\ UNCHANGED <<variant, calc, rsVars, active_jobs, jobs_lock, cl, rd, pr>>

\* process_images: the completion update under jobs_lock
SV_complete(t) ==
  /\ variant = "server"
  /\ sv[t].pc = "complete" /\ sv[t].held
  /\ active_jobs' = complete_job(active_jobs, t, sv[t].measurements)
  /\ jobs_lock' = FALSE
  /\ sv' = [sv EXCEPT ![t].pc = "done", ![t].held = FALSE]
  /\ UNCHANGED <<variant, calc, rsVars, cl, rd, pr>>

\* process_images: `except Exception` after step 4 failed
SV_except(t) ==
  /\ variant = "server"
  /\ sv[t].pc = "except" /\ sv[t].held
  /\ active_jobs' = update_job_status(active_jobs, t, "error", 0)
  /\ jobs_lock' = FALSE
  /\ sv' = [sv EXCEPT ![t].pc = "done", ![t].held = FALSE]
  /\ UNCHANGED <<variant, calc, rsVars, cl, rd, pr>>

\* cleanup_old_jobs: `with jobs_lock:` entered
SV_cleanup_acquire ==
  /\ variant = "server"
  /\ cl = "idle"
  /\ CanAcquire(jobs_lock)
  /\ jobs_lock' = TRUE
  /\ cl' = "locked"
  /\ UNCHANGED <<variant, calc, rsVars, active_jobs, sv, rd, pr>>

\* cleanup_old_jobs: the jobs older than the cutoff whose directories could be
\* removed are deleted (old), then the lock is left
SV_cleanup_old_jobs(old) ==
  /\ variant = "server"
  /\ cl = "locked"
  /\ old \subseteq DOMAIN active_jobs
  /\ active_jobs' = [id \in (DOMAIN active_jobs) \ old |-> active_jobs[id]]
  /\ jobs_lock' = FALSE
  /\ cl' = "idle"
  /\ UNCHANGED <<variant, calc, rsVars, sv, rd, pr>>

\* get_job_status, get_model, list_jobs: `with jobs_lock:` entered
SV_reader_acquire(r) ==
  /\ variant = "server"
  /\ rd[r] = "request"
  /\ CanAcquire(jobs_lock)
  /\ jobs_lock' = TRUE
  /\ rd' = [rd EXCEPT ![r] = "locked"]
  /\ UNCHANGED <<variant, calc, rsVars, active_jobs, sv, cl, pr>>

\* get_job_status and get_model: the record is copied (or found absent) and the
\* lock is left; the copy is then serialised
SV_get_job_status(r) ==
  /\ variant = "server"
  /\ rd[r] = "locked"
  /\ jobs_lock' = FALSE
  /\ rd' = [rd EXCEPT ![r] = "request"]
  /\ UNCHANGED <<variant, calc, rsVars, active_jobs, sv, cl, pr>>

\* list_jobs: the list of the records themselves is taken and the lock is left
SV_list_jobs(r) ==
  /\ variant = "server"
  /\ rd[r] = "locked"
  /\ jobs_lock' = FALSE
  /\ rd' = [rd EXCEPT ![r] = "serialize"]
  /\ UNCHANGED <<variant, calc, rsVars, active_jobs, sv, cl, pr>>

\* list_jobs: jsonify of the records, outside the lock
SV_list_jobs_respond(r) ==
  /\ variant = "server"
  /\ rd[r] = "serialize"
  /\ rd' = [rd EXCEPT ![r] = "request"]
  /\ UNCHANGED <<variant, calc, rsVars, active_jobs, jobs_lock, sv, cl, pr>>

SVInit ==
  /\ active_jobs = EmptyDict
  /\ jobs_lock = FALSE
  /\ sv = [t \in Threads |-> SVInitThread]
  /\ cl = "idle"
  /\ rd = [r \in Readers |-> "request"]

SVNext ==
  \/ \E t \in Threads, files \in Uploads : SV_process_roof_images(t, files)
  \/ \E t \in Threads : SV_acquire(t)
  \/ \E t \in Threads : SV_create_job(t)
  \/ \E t \in Threads : SV_update_job_status(t)
  \/ \E t \in Threads, outcome \in SVToolOutcomes("export") : SV_run_tool(t, outcome)
  \/ \E t \in Threads, outcome \in SVMeasureOutcomes : SV_calculate(t, outcome)
  \/ \E t \in Threads : SV_complete(t)
  \/ \E t \in Threads : SV_except(t)
  \/ SV_cleanup_acquire
  \/ \E old \in SUBSET Threads : SV_cleanup_old_jobs(old)
  \/ \E r \in Readers : SV_reader_acquire(r)
  \/ \E r \in Readers : SV_get_job_status(r)
  \/ \E r \in Readers : SV_list_jobs(r)
  \/ \E r \in Readers : SV_list_jobs_respond(r)

\* ------------------------------------- roof_measurements.py and the script
RM_features ==
  FeatureCounts \cup {"features.total_components", "features.other_features"}

\* process_roof_model, the measurements object
RM_measurements ==
  [k \in AreaPitchDims \cup RM_features \cup
         {"model_info.vertices", "model_info.faces", "model_info.source_path"} |->
     IF k = "area.unit" THEN "sq_ft" ELSE "measured"]

\* the default measurements of process_roof_model and extract_measurements_from_nerf
RM_default(error) ==
  [k \in AreaPitchDims \cup RM_features \cup {"error"} |->
     CASE k = "area.unit" -> "sq_ft"
       [] k = "pitch.primary" -> "Unknown"
       [] k = "error" -> error
       [] OTHER -> "0"]

\* process_roof_model(model_path); load is the outcome of trimesh.load and of the
\* four calculations
process_roof_model(load) ==
  IF load = "loaded" THEN RM_measurements ELSE RM_default("str(e)")

\* extract_measurements_from_nerf(nerf_output_dir); found: a mesh file exists under
\* the directory.  Its `except` branch guards a print and a return only.
extract_measurements_from_nerf(found, load) ==
  IF found THEN process_roof_model(load)
  ELSE RM_default("No mesh file found for measurement extraction")

\* update_status(status_file, status, message, progress)
update_status(status, progress) == [status |-> status, progress |-> progress]

PRInitRun ==
  [pc |-> "start", status_file |-> None, result_file |-> None, mesh |-> FALSE,
   measurements |-> None, last |-> <<"", "">>]

PRSteps == [colmap |-> <<30, "train", 0>>, train |-> <<70, "export", 30>>]

PROutcomes == {"ok", "called_process_error", "exception"}

\* process_roof_images: the output directory and update_status(..., "processing", ..., 10)
PR_start ==
  /\ variant = "script"
  /\ pr.pc = "start"
  /\ pr' = [pr EXCEPT !.pc = "colmap", !.status_file = update_status("processing", 10)]
  /\ UNCHANGED <<variant, calc, rsVars, svVars, rd>>

\* process_roof_images: ns-process-data and ns-train; only CalledProcessError is
\* caught, any other exception of subprocess.run leaves the function
PR_run_tool(outcome) ==
  /\ variant = "script"
  /\ pr.pc \in DOMAIN PRSteps
  /\ pr' = CASE outcome = "ok" ->
                  [pr EXCEPT !.pc = PRSteps[pr.pc][2],
                             !.status_file = update_status("processing", PRSteps[pr.pc][1])]
             [] outcome = "called_process_error" ->
                  [pr EXCEPT !.pc = "returned",
                             !.status_file = update_status("error", PRSteps[pr.pc][3]),
                             !.last = <<pr.pc, outcome>>]
             [] OTHER ->
                  [pr EXCEPT !.pc = "raised", !.last = <<pr.pc, outcome>>]
  /\ UNCHANGED <<variant, calc, rsVars, svVars, rd>>

\* process_roof_images: get_latest_model_dir and ns-export; after a
\* CalledProcessError the function goes on to the measurements
PR_export(outcome, latest_model_dir, written) ==
  /\ variant = "script"
  /\ pr.pc = "export"
  /\ pr' = IF ~latest_model_dir
           THEN [pr EXCEPT !.pc = "returned", !.status_file = update_status("error", 70),
                           !.last = <<"export", "no_model_dir">>]
           ELSE CASE outcome = "ok" ->
                       [pr EXCEPT !.pc = "measure", !.mesh = written,
                                  !.status_file = update_status("processing", 80)]
                  [] outcome = "called_process_error" ->
                       [pr EXCEPT !.pc = "measure", !.mesh = written,
                                  !.status_file = update_status("error", 70),
                                  !.last = <<"export", outcome>>]
                  [] OTHER ->
                       [pr EXCEPT !.pc = "raised", !.last = <<"export", outcome>>]
  /\ UNCHANGED <<variant, calc, rsVars, svVars, rd>>

\* process_roof_images: the measurements, measurements.json and result.json;
\* write_ok: both files could be written
PR_measure(found, load, write_ok) ==
  /\ variant = "script"
  /\ pr.pc = "measure"
  /\ LET measurements == IF pr.mesh THEN process_roof_model(load)
                         ELSE extract_measurements_from_nerf(found, load)
     IN  pr' = IF write_ok
               THEN [pr EXCEPT !.pc = "complete", !.measurements = measurements,
                               !.result_file = [status |-> "complete",
                                                measurements |-> measurements],
                               !.last = <<"load", IF pr.mesh \/ found THEN load
                                                  ELSE "no_mesh">>]
               ELSE [pr EXCEPT !.pc = "returned", !.measurements = measurements,
                               !.status_file = update_status("error", 80),
                               !.last = <<"measure", "write_error">>]
  /\ UNCHANGED <<variant, calc, rsVars, svVars, rd>>

\* process_roof_images: update_status(status_file, "complete", ..., 100)
PR_complete ==
  /\ variant = "script"
  /\ pr.pc = "complete"
  /\ pr' = [pr EXCEPT !.pc = "returned", !.status_file = update_status("complete", 100)]
  /\ UNCHANGED <<variant, calc, rsVars, svVars, rd>>

PRNext ==
  \/ PR_start
  \/ \E outcome \in PROutcomes : PR_run_tool(outcome)
  \/ \E outcome \in PROutcomes, latest_model_dir \in BOOLEAN, written \in BOOLEAN :
       PR_export(outcome, latest_model_dir, written)
  \/ \E found \in BOOLEAN, load \in LoadOutcomes, write_ok \in BOOLEAN :
       PR_measure(found, load, write_ok)
  \/ PR_complete

\* ------------------------------------------------------ numerical functions
\* Numbers are exact rationals kept as integers over a stated denominator; the
\* floating-point error of the programs (about 1e-16 relative) is not modelled.

RECURSIVE Sum(_)
\* np.sum and the area property of a trimesh mesh: the sum of a sequence
Sum(seq) == IF seq = <<>> THEN 0 ELSE seq[1] + Sum(Tail(seq))

Abs(x) == IF x < 0 THEN -x ELSE x

\* a rounding that drops the fraction
Truncate(num, den) == num \div den

\* Python round(x) and the format f"{x:.2f}", for x = num/den with den > 0:
\* the nearest integer, a tie going to the even one
RoundHalfEven(num, den) ==
  LET q == num \div den
      r == num % den
  IN  IF 2 * r < den THEN q
      ELSE IF 2 * r > den THEN q + 1
      ELSE IF q % 2 = 0 THEN q ELSE q + 1

\* face areas are multiples of 1/AreaDen square metres
AreaDen == 20

\* 10.764 square feet per square metre, in thousandths
SqFtPerSqM == 10764

\* the denominator of an area in square feet: area * 10.764 is
\* (units * SqFtPerSqM) / SqFtDen square feet
SqFtDen == AreaDen * 1000

\* roof_measurements.py calculate_roof_area(mesh): square feet over SqFtDen
calculate_roof_area(area_faces) == Sum(area_faces) * SqFtPerSqM

\* roof_measurements.py process_roof_model: "total": float(f"{area:.2f}"), in
\* hundredths of a square foot
RM_area_total(area_faces) == RoundHalfEven(calculate_roof_area(area_faces) * 100, SqFtDen)

\* server.py calculate_roof_measurements: round(combined_mesh.area * 10.764)
SV_area_total(area_faces) == RoundHalfEven(Sum(area_faces) * SqFtPerSqM, SqFtDen)

\* roof_server.py calculate_roof_measurements: round(float(mesh.area) * 10.764)
RS_area_total(area_faces) == RoundHalfEven(Sum(area_faces) * SqFtPerSqM, SqFtDen)

\* the sequences over S of length lo..hi
SeqsOf(S, lo, hi) == UNION {[1..n -> S] : n \in lo..hi}

\* the meshes given face by face: the areas of their faces
FaceAreas == SeqsOf(0..MaxArea, 1, MaxFaces)

\* server.py segment_roof_planes: DBSCAN(eps=0.1, min_samples=5)
min_samples == 5

\* n copies of x
Repeat(n, x) == [i \in 1..n |-> x]

RECURSIVE Flatten(_)
Flatten(seqs) == IF seqs = <<>> THEN <<>> ELSE seqs[1] \o Flatten(Tail(seqs))

\* a mesh given by its planar patches: cs[k] is the area of each of the
\* min_samples faces of patch k, ns the areas of the faces outside any patch
PatchMesh(cs, ns) ==
  [area_faces |-> Flatten([k \in DOMAIN cs |-> Repeat(min_samples, cs[k])]) \o ns,
   labels |-> Flatten([k \in DOMAIN cs |-> Repeat(min_samples, k - 1)])
                \o Repeat(Len(ns), -1)]

\* the labels DBSCAN gives the faces of such a mesh: cluster k-1 for the faces of
\* patch k, -1 (noise) for the others
PatchMeshes ==
  {PatchMesh(cs, ns) : cs \in SeqsOf(1..MaxArea, 0, MaxClusters),
                       ns \in SeqsOf(1..MaxArea, 0, MaxNoise)}

\* face_areas[labels == i]
Masked(area_faces, labels, i) ==
  LET RECURSIVE pick(_)
      pick(k) == IF k > Len(area_faces) THEN <<>>
                 ELSE (IF labels[k] = i THEN <<area_faces[k]>> ELSE <<>>) \o pick(k + 1)
  IN  pick(1)

\* list.sort(key=lambda x: x["area"], reverse=True): descending, stable
RECURSIVE SortByAreaDescending(_)
SortByAreaDescending(segs) ==
  IF segs = <<>> THEN <<>>
  ELSE LET rest == SortByAreaDescending(Tail(segs))
           RECURSIVE insert(_, _)
           insert(x, sorted) ==
             IF sorted = <<>> THEN <<x>>
             ELSE IF x.area >= sorted[1].area THEN <<x>> \o sorted
             ELSE <<sorted[1]>> \o insert(x, Tail(sorted))
       IN  insert(segs[1], rest)

\* the segments in the order of their ids, without the sort by area
segment_roof_planes_unsorted(area_faces, labels) ==
  LET label_set == {labels[k] : k \in DOMAIN labels}
      n_clusters == Cardinality(label_set) - (IF -1 \in label_set THEN 1 ELSE 0)
  IN  [j \in 1..n_clusters |->
         [id |-> j - 1,
          area |-> RoundHalfEven(Sum(Masked(area_faces, labels, j - 1)) * SqFtPerSqM,
                                 SqFtDen)]]

\* server.py segment_roof_planes(mesh), the "areas" of its result: id and area
\* (square feet) of every cluster; the pitch of a segment is not modelled
segment_roof_planes(area_faces, labels) ==
  LET label_set == {labels[k] : k \in DOMAIN labels}
      n_clusters == Cardinality(label_set) - (IF -1 \in label_set THEN 1 ELSE 0)
      segment_areas ==
        [j \in 1..n_clusters |->
           [id |-> j - 1,
            area |-> RoundHalfEven(Sum(Masked(area_faces, labels, j - 1)) * SqFtPerSqM,
                                   SqFtDen)]]
  IN  SortByAreaDescending(segment_areas)

\* the connected components of a mesh (mesh.split): area in units of 1/AreaDen
\* square metres, extents of the bounding box in tenths of a model unit.
\* Areas: 0.05, 1, 2 and 5 square metres; shapes: tall and narrow, small,
\* flat and wide, large.
ComponentAreas == {1, 20, 40, 100}
ComponentShapes ==
  {[width |-> 7, length |-> 7, height |-> 15], [width |-> 2, length |-> 2, height |-> 2],
   [width |-> 7, length |-> 7, height |-> 2], [width |-> 15, length |-> 15, height |-> 15]}
Components ==
  {[area |-> a, width |-> b.width, length |-> b.length, height |-> b.height] :
     a \in ComponentAreas, b \in ComponentShapes}
ComponentLists == SeqsOf(Components, 1, MaxComponents)

\* the number of members of seq that are equal to x
Count(seq, x) == Cardinality({k \in DOMAIN seq : seq[k] = x})

\* server.py detect_roof_features, the body of the loop: what one component is
\* counted as ("" when it is skipped or matches no rule); mesh_area is mesh.area
SV_classify(comp, mesh_area) ==
  IF 10 * comp.area > mesh_area THEN ""
  ELSE IF comp.height > 10 /\ comp.width < 10 /\ comp.length < 10 THEN "chimneys"
  ELSE IF comp.width < 5 /\ comp.length < 5 /\ comp.height < 3 THEN "vents"
  ELSE IF comp.width > 5 /\ comp.length > 5 /\ comp.height < 3 THEN "skylights"
  ELSE ""

\* server.py detect_roof_features(mesh)
detect_roof_features(components) ==
  LET mesh_area == Sum([k \in DOMAIN components |-> components[k].area])
      counted == [k \in DOMAIN components |-> SV_classify(components[k], mesh_area)]
  IN  [counted |-> counted,
       chimneys |-> Count(counted, "chimneys"),
       vents |-> Count(counted, "vents"),
       skylights |-> Count(counted, "skylights"),
       total_features |-> Count(counted, "chimneys") + Count(counted, "vents")
                            + Count(counted, "skylights")]

\* roof_measurements.py detect_features, the body of the loop, with
\* area_threshold = 10 square feet: area = component.area * 10.764
RM_classify(comp) ==
  LET area == comp.area * SqFtPerSqM
  IN  IF area < 10 * SqFtDen THEN ""
      ELSE IF area > 50 * SqFtDen THEN "chimneys"
      ELSE IF area > 20 * SqFtDen THEN "skylights"
      ELSE "vents"

\* roof_measurements.py detect_features(mesh)
detect_features(components) ==
  LET counted == [k \in DOMAIN components |-> RM_classify(components[k])]
  IN  [counted |-> counted,
       total_components |-> Len(components),
       chimneys |-> Count(counted, "chimneys"),
       vents |-> Count(counted, "vents"),
       skylights |-> Count(counted, "skylights"),
       other_features |-> 0]

\* create_fallback_transforms and create_look_at_matrix in fixed point: lengths
\* and matrix entries are integers in thousandths (Scale), and math.cos, math.sin
\* are tables of the values at theta = i * 2 * pi / num_images, rounded to the
\* nearest thousandth, for num_images = 3..8
Scale == 1000

\* CosTable[num_images][i + 1] = 1000 * cos(i * 2 * pi / num_images)
CosTable ==
  <<<<>>, <<>>,
     <<1000, -500, -500>>,
     <<1000, 0, -1000, 0>>,
     <<1000, 309, -809, -809, 309>>,
     <<1000, 500, -500, -1000, -500, 500>>,
     <<1000, 623, -223, -901, -901, -223, 623>>,
     <<1000, 707, 0, -707, -1000, -707, 0, 707>>>>

\* SinTable[num_images][i + 1] = 1000 * sin(i * 2 * pi / num_images)
SinTable ==
  <<<<>>, <<>>,
     <<0, 866, -866>>,
     <<0, 1000, 0, -1000>>,
     <<0, 951, 588, -588, -951>>,
     <<0, 866, 866, 0, -866, -866>>,
     <<0, 782, 975, 434, -434, -975, -782>>,
     <<0, 707, 1000, 707, 0, -707, -1000, -707>>>>

\* Sin2Table[num_images][i + 1] = 1000 * sin(2 * i * 2 * pi / num_images)
Sin2Table ==
  <<<<>>, <<>>,
     <<0, -866, 866>>,
     <<0, 0, 0, 0>>,
     <<0, 588, -951, 951, -588>>,
     <<0, 866, -866, 0, 866, -866>>,
     <<0, 975, -434, -782, 782, 434, -975>>,
     <<0, 1000, 0, -1000, 0, 1000, 0, -1000>>>>

\* the quotient a / b of the fixed-point numbers, to the nearest unit (b > 0)
Div(a, b) == RoundHalfEven(a, b)

\* the integer square root: the largest r with r * r <= n, for n < 46340 * 46340
RECURSIVE SqrtBetween(_, _, _)
SqrtBetween(n, lo, hi) ==
  IF lo >= hi THEN lo
  ELSE LET mid == (lo + hi + 1) \div 2
       IN  IF mid * mid <= n THEN SqrtBetween(n, mid, hi) ELSE SqrtBetween(n, lo, mid - 1)
ISqrt(n) == SqrtBetween(n, 0, 46339)

\* vectors of three fixed-point numbers
Dot(u, v) == u[1] * v[1] + u[2] * v[2] + u[3] * v[3]
Cross(u, v) ==
  <<Div(u[2] * v[3] - u[3] * v[2], Scale), Div(u[3] * v[1] - u[1] * v[3], Scale),
    Div(u[1] * v[2] - u[2] * v[1], Scale)>>
Minus(u, v) == <<u[1] - v[1], u[2] - v[2], u[3] - v[3]>>
Neg(u) == <<-u[1], -u[2], -u[3]>>
\* np.linalg.norm(v)
Norm(v) == ISqrt(Dot(v, v))
\* v / np.linalg.norm(v)
Normalize(v) ==
  <<Div(v[1] * Scale, Norm(v)), Div(v[2] * Scale, Norm(v)), Div(v[3] * Scale, Norm(v))>>

\* create_fallback_transforms: radius = 4.0
radius == 4

\* a camera position on the circle of the radius around the origin, at height 0
from_pos_without_height(i, num_images) ==
  <<radius * CosTable[num_images][i + 1], radius * SinTable[num_images][i + 1], 0>>

\* create_fallback_transforms: from_pos of image i (0-based) of num_images,
\* x = radius * cos(theta), y = radius * sin(theta), z = 2.0 + 0.5 * sin(theta * 2)
from_pos(i, num_images) ==
  <<radius * CosTable[num_images][i + 1], radius * SinTable[num_images][i + 1],
    2 * Scale + Div(Sin2Table[num_images][i + 1], 2)>>

\* create_look_at_matrix(from_pos, to_pos, up): transform = rotation @ translation,
\* the rows of rotation being right, up, -forward and the translation -from_pos
create_look_at_matrix(eye, to_pos, up0) ==
  LET forward == Normalize(Minus(to_pos, eye))
      right == Normalize(Cross(forward, up0))
      up == Cross(right, forward)
      row(v) == <<v[1], v[2], v[3], Div(Dot(v, Neg(eye)), Scale)>>
  IN  <<row(right), row(up), row(Neg(forward)), <<0, 0, 0, Scale>>>>

\* create_fallback_transforms: the frames written for the image files, one for
\* every image in the order of the listing
fallback_frames(image_files) ==
  [k \in DOMAIN image_files |->
     [file_path |-> image_files[k],
      transform_matrix |-> create_look_at_matrix(from_pos(k - 1, Len(image_files)),
                                                 <<0, 0, 0>>, <<0, 0, Scale>>)]]

\* a @ b for 4x4 matrices (sequences of rows)
MatMul(a, b) ==
  [i \in 1..4 |-> [j \in 1..4 |->
     a[i][1] * b[1][j] + a[i][2] * b[2][j] + a[i][3] * b[3][j] + a[i][4] * b[4][j]]]

\* convert_to_nerf_format: flip
flip == <<<<1, 0, 0, 0>>, <<0, -1, 0, 0>>, <<0, 0, -1, 0>>, <<0, 0, 0, 1>>>>

\* a conversion by the rotation of the axes that turns Y into Z and Z into -Y
convert_by_axis_rotation(transform) ==
  MatMul(transform, <<<<1, 0, 0, 0>>, <<0, 0, 1, 0>>, <<0, -1, 0, 0>>, <<0, 0, 0, 1>>>>)

\* convert_to_nerf_format(transform): result = transform @ flip
convert_to_nerf_format(transform) == MatMul(transform, flip)

\* the 4x4 matrices whose rows are a row of entries and its cyclic shifts
Shift(r) == <<r[4], r[1], r[2], r[3]>>
Transforms ==
  {<<r, Shift(r), Shift(Shift(r)), Shift(Shift(Shift(r)))>> :
     r \in [1..4 -> (-MaxEntry)..MaxEntry]}

\* the unit quaternions (w, x, y, z) / den with integer w, x, y, z
UnitQuaternions ==
  {q \in [qvec : [1..4 -> (-MaxQuatDen)..MaxQuatDen], den : 1..MaxQuatDen] :
     q.qvec[1] * q.qvec[1] + q.qvec[2] * q.qvec[2] + q.qvec[3] * q.qvec[3]
       + q.qvec[4] * q.qvec[4] = q.den * q.den}

\* the conversion with the sign of one product reversed
quaternion_to_rotation_matrix_wrong_sign(qvec, den) ==
  LET qw == qvec[1]  qx == qvec[2]  qy == qvec[3]  qz == qvec[4]
      one == den * den
  IN  <<<<one - 2 * qy * qy - 2 * qz * qz, 2 * qx * qy + 2 * qz * qw, 2 * qx * qz + 2 * qy * qw>>,
        <<2 * qx * qy + 2 * qz * qw, one - 2 * qx * qx - 2 * qz * qz, 2 * qy * qz - 2 * qx * qw>>,
        <<2 * qx * qz - 2 * qy * qw, 2 * qy * qz + 2 * qx * qw, one - 2 * qx * qx - 2 * qy * qy>>>>

\* quaternion_to_rotation_matrix(qvec) for the quaternion qvec / den: the entries
\* of the rotation matrix over den * den
quaternion_to_rotation_matrix(qvec, den) ==
  LET qw == qvec[1]  qx == qvec[2]  qy == qvec[3]  qz == qvec[4]
      one == den * den
  IN  <<<<one - 2 * qy * qy - 2 * qz * qz, 2 * qx * qy - 2 * qz * qw, 2 * qx * qz + 2 * qy * qw>>,
        <<2 * qx * qy + 2 * qz * qw, one - 2 * qx * qx - 2 * qz * qz, 2 * qy * qz - 2 * qx * qw>>,
        <<2 * qx * qz - 2 * qy * qw, 2 * qy * qz + 2 * qx * qw, one - 2 * qx * qx - 2 * qy * qy>>>>

\* roof_server.py generate_estimated_measurements: the arguments of its
\* random.randint(a, b) calls
RandomRange ==
  [k \in (AreaPitchDims \ {"area.unit"}) \cup FeatureCounts |->
     CASE k = "area.total" -> <<1000, 2000>>
       [] k = "pitch.primary" -> <<3, 10>>
       [] k = "pitch.degrees" -> <<15, 45>>
       [] k = "dimensions.length" -> <<30, 50>>
       [] k = "dimensions.width" -> <<20, 40>>
       [] k = "dimensions.height" -> <<10, 20>>
       [] k = "features.chimneys" -> <<0, 1>>
       [] k = "features.vents" -> <<2, 7>>
       [] k = "features.skylights" -> <<0, 1>>]

\* random.randint(a, b): a number in a..b that the state of the generator of the
\* `random` module decides; the module seeds it from the operating system
randint(a, b, state) == a + (state % (b - a + 1))

\* the numbers that the values "random" of generate_estimated_measurements stand for
random_values(state) ==
  [k \in DOMAIN RandomRange |-> randint(RandomRange[k][1], RandomRange[k][2], state)]

\* the programs that extract measurements from a mesh file
MeasurePrograms == {"roof_server", "server", "roof_measurements"}

\* measurement extraction by one of the programs: the report, and the random
\* numbers in it
Measure(program, load, state) ==
  LET report == CASE program = "roof_server" -> RS_calculate_roof_measurements(load)
                  [] program = "server" -> SV_calculate_roof_measurements(load)
                  [] OTHER -> process_roof_model(load)
  IN  [measurements |-> report,
       random |-> IF \E k \in DOMAIN report : report[k] = "random"
                  THEN random_values(state) ELSE [k \in {} |-> 0]]

\* the angles of the faces are multiples of AngleStep degrees
AngleStep == 15

\* the faces of a mesh for the pitch: whether the normal points upward
\* (dot product with the up vector > 0) and its angle in degrees
PitchFaces ==
  SeqsOf([up : BOOLEAN, angle : {AngleStep * k : k \in 0..MaxAngle}], 1, MaxFaces)

\* calculate_roof_pitch: bins=36
bins == 36

RECURSIVE SeqMin(_)
SeqMin(seq) ==
  IF Len(seq) = 1 THEN seq[1]
  ELSE LET m == SeqMin(Tail(seq)) IN IF seq[1] < m THEN seq[1] ELSE m

RECURSIVE SeqMax(_)
SeqMax(seq) ==
  IF Len(seq) = 1 THEN seq[1]
  ELSE LET m == SeqMax(Tail(seq)) IN IF seq[1] > m THEN seq[1] ELSE m

\* np.histogram(angles_deg, bins=36) for a non-empty sequence of whole degrees.
\* The range is (min, max), widened to (min - 0.5, max + 0.5) when min = max; the
\* bins are half-open except the last, which includes max.  All numbers here
\* are degrees times 2 * bins: lo, the width of the range and the bin edges.
histogram(angles_deg) ==
  LET mn == SeqMin(angles_deg)
      mx == SeqMax(angles_deg)
      lo == IF mn = mx THEN 2 * bins * mn - bins ELSE 2 * bins * mn
      width == IF mn = mx THEN 2 * bins ELSE 2 * bins * (mx - mn)
      bin_of(v) == IF 2 * bins * v = lo + width THEN bins - 1
                   ELSE ((2 * bins * v - lo) * bins) \div width
  IN  [hist |-> [i \in 0..(bins - 1) |->
                   Cardinality({k \in DOMAIN angles_deg : bin_of(angles_deg[k]) = i})],
       bin_edges |-> [i \in 0..bins |-> lo + i * (width \div bins)],
       bin_of |-> [k \in DOMAIN angles_deg |-> bin_of(angles_deg[k])]]

\* np.argmax(hist): the first index of the largest count
argmax(hist) ==
  CHOOSE i \in DOMAIN hist :
    /\ \A j \in DOMAIN hist : hist[j] <= hist[i]
    /\ \A j \in DOMAIN hist : j < i => hist[j] < hist[i]

\* roof_measurements.py calculate_roof_pitch(mesh): the angles averaged for the
\* primary pitch, whether the mean is NaN (np.mean of no angles), and "degrees"
\* in tenths of a degree; unknown when no face points upward
calculate_roof_pitch(faces) ==
  LET upward == SelectSeq(faces, LAMBDA f : f.up)
      angles_deg == [k \in DOMAIN upward |-> upward[k].angle]
  IN  IF upward = <<>>
      THEN [primary |-> "Unknown", members |-> <<>>, in_bin |-> <<>>, nan |-> FALSE,
            degrees |-> 0]
      ELSE LET h == histogram(angles_deg)
               primary_angle_index == argmax(h.hist)
               members == SelectSeq(angles_deg,
                                 LAMBDA a :
                                   /\ 2 * bins * a >= h.bin_edges[primary_angle_index]
                                   /\ 2 * bins * a < h.bin_edges[primary_angle_index + 1])
           IN  [primary |-> "rise:12",
                members |-> members,
                in_bin |-> SelectSeq(angles_deg,
                                  LAMBDA a : \E k \in DOMAIN angles_deg :
                                    angles_deg[k] = a /\ h.bin_of[k] = primary_angle_index),
                nan |-> members = <<>>,
                degrees |-> IF members = <<>> THEN 0
                            ELSE RoundHalfEven(10 * Sum(members), Len(members))]

\* the angle between the normal of a face and the up vector (0, 0, 1), in whole
\* degrees: the multiples of AngleStep from 0 (facing up) over 90 (a wall) to
\* 180 (facing down)
Tilts == {AngleStep * k : k \in 0..(180 \div AngleStep)}

\* normal[2], the dot product of the unit normal with the up vector, in
\* thousandths: 1000 * cos(tilt)
NormalZ(tilt) ==
  <<1000, 966, 866, 707, 500, 259, 0, -259, -500, -707, -866, -966, -1000>>
    [tilt \div AngleStep + 1]

\* np.arccos in whole degrees, on the values that NormalZ takes
arccos(z) == CHOOSE t \in Tilts : NormalZ(t) = z

\* 12 * tan(angle) in thousandths, for the angles 0, 7.5, ..., 82.5 degrees.
\* The radians of 90 degrees are a float just below pi/2, where tan is about
\* 1.6e16: the last entry stands for that number.
Tan12Table ==
  <<0, 1580, 3215, 4971, 6928, 9208, 12000, 15639, 20785, 28971, 44785, 91149,
    2000000000>>

\* 12 * tan(angle) in thousandths; the angle is in tenths of a degree, a
\* multiple of 7.5 degrees from -90 to 180
tan12(angle10) ==
  LET half_step == (10 * AngleStep) \div 2
  IN  IF angle10 < 0 THEN -Tan12Table[(-angle10) \div half_step + 1]
      ELSE IF angle10 > 900 THEN -Tan12Table[(1800 - angle10) \div half_step + 1]
      ELSE Tan12Table[angle10 \div half_step + 1]

\* a pitch as the programs print it: the rise in tenths, the number of decimals
\* it is printed with, the separator before the 12, and the degrees in tenths;
\* "7:12" at 30 degrees is [rise10 |-> 70, decimals |-> 0, sep |-> ":"]
Pitch(rise10, decimals, sep, degrees10) ==
  [unknown |-> FALSE, nan |-> FALSE, rise10 |-> rise10, decimals |-> decimals,
   sep |-> sep, degrees10 |-> degrees10]

\* "Unknown" with degrees 0
UnknownPitch ==
  [unknown |-> TRUE, nan |-> FALSE, rise10 |-> 0, decimals |-> 0, sep |-> "",
   degrees10 |-> 0]

\* server.py segment_roof_planes, the pitch of one segment whose faces all have
\* the normal at `tilt`: avg_normal is that normal, the angle is
\* arccos(clip(dot(avg_normal, [0, 0, 1]))), rise = round(tan(angle) * 12),
\* pitch = f"{rise}/12", degrees = round(angle_deg, 1)
segment_pitch(tilt) ==
  LET angle_deg == arccos(NormalZ(tilt))
      rise == RoundHalfEven(tan12(10 * angle_deg), 1000)
  IN  Pitch(10 * rise, 0, "/", 10 * angle_deg)

\* the faces of a mesh for roof_measurements.calculate_roof_pitch: whether
\* dot(normal, up) > 0, and degrees(arccos(abs(dot(normal, up))))
upward_and_angle(tilts) ==
  [k \in DOMAIN tilts |->
     [up |-> NormalZ(tilts[k]) > 0, angle |-> arccos(Abs(NormalZ(tilts[k])))]]

\* roof_measurements.py calculate_roof_pitch, the strings of its result:
\* rise = tan(radians(primary_angle)) * 12, f"{rise:.1f}:12", and
\* float(f"{primary_angle:.1f}"); a NaN mean gives "nan:12" and degrees NaN
RM_pitch(tilts) ==
  LET r == calculate_roof_pitch(upward_and_angle(tilts))
  IN  IF r.primary = "Unknown" THEN UnknownPitch
      ELSE IF r.nan THEN [Pitch(0, 1, ":", 0) EXCEPT !.nan = TRUE]
      ELSE Pitch(RoundHalfEven(tan12(r.degrees), 100), 1, ":", r.degrees)

\* server.py calculate_roof_measurements, the loop over face_normals: the
\* pitches of the faces that are neither nearly vertical nor nearly horizontal,
\* with the angle atan2(normal[2], sqrt(normal[0]**2 + normal[1]**2)), which is
\* 90 degrees minus the tilt of the normal
RECURSIVE SV_pitches(_)
SV_pitches(tilts) ==
  IF tilts = <<>> THEN <<>>
  ELSE LET z == NormalZ(tilts[1])
           angle_deg == 90 - tilts[1]
           rise == RoundHalfEven(tan12(10 * angle_deg), 1000)
       IN  (IF Abs(z) < 100 \/ Abs(z) > 950 THEN <<>>
            ELSE <<[rise |-> rise, degrees |-> angle_deg, count |-> 1]>>)
             \o SV_pitches(Tail(tilts))

\* server.py calculate_roof_measurements, grouping one pitch into the groups:
\* it joins the first group within 2 degrees (whose average then stays the same,
\* the angles being multiples of AngleStep), or starts a group
RECURSIVE SV_group(_, _)
SV_group(groups, pitch) ==
  IF groups = <<>> THEN <<pitch>>
  ELSE IF Abs(groups[1].degrees - pitch.degrees) < 2
  THEN <<[groups[1] EXCEPT !.count = @ + 1]>> \o Tail(groups)
  ELSE <<groups[1]>> \o SV_group(Tail(groups), pitch)

RECURSIVE SV_grouped_pitches(_, _)
SV_grouped_pitches(groups, pitches) ==
  IF pitches = <<>> THEN groups
  ELSE SV_grouped_pitches(SV_group(groups, pitches[1]), Tail(pitches))

\* grouped_pitches.sort(key=count, reverse=True)[0]: the first group of the
\* largest count
MostCommon(groups) ==
  groups[CHOOSE i \in DOMAIN groups :
           /\ \A j \in DOMAIN groups : groups[j].count <= groups[i].count
           /\ \A j \in DOMAIN groups : j < i => groups[j].count < groups[i].count]

\* server.py calculate_roof_measurements: primary_pitch and primary_degrees
SV_pitch(tilts) ==
  LET grouped_pitches == SV_grouped_pitches(<<>>, SV_pitches(tilts))
  IN  IF grouped_pitches = <<>> THEN UnknownPitch
      ELSE LET g == MostCommon(grouped_pitches)
           IN  Pitch(10 * g.rise, 0, "/", 10 * g.degrees)

\* ascending order
RECURSIVE Sorted(_)
Sorted(seq) ==
  IF seq = <<>> THEN <<>>
  ELSE LET rest == Sorted(Tail(seq))
           RECURSIVE insert(_, _)
           insert(x, sorted) ==
             IF sorted = <<>> THEN <<x>>
             ELSE IF x <= sorted[1] THEN <<x>> \o sorted
             ELSE <<sorted[1]>> \o insert(x, Tail(sorted))
       IN  insert(seq[1], rest)

\* np.median of whole degrees, in tenths of a degree
median(seq) ==
  LET s == Sorted(seq)
      n == Len(s)
  IN  IF n % 2 = 1 THEN 10 * s[(n + 1) \div 2]
      ELSE 5 * (s[n \div 2] + s[n \div 2 + 1])

\* roof_server.py calculate_roof_measurements: pitch_degrees is the median of
\* arccos(abs(normals[:, 2])), pitch_ratio = int(round(tan(pitch_degrees) * 12)),
\* f"{pitch_ratio}/12", and round(pitch_degrees)
RS_pitch(tilts) ==
  LET pitch_degrees == median([k \in DOMAIN tilts |-> arccos(Abs(NormalZ(tilts[k])))])
      pitch_ratio == RoundHalfEven(tan12(pitch_degrees), 1000)
  IN  Pitch(10 * pitch_ratio, 0, "/", 10 * RoundHalfEven(pitch_degrees, 10))

\* the meshes given by the tilts of their faces
TiltLists == SeqsOf(Tilts, 1, MaxFaces)

\* 3.28084 feet per metre, in hundred-thousandths
FtPerM == 328084

\* the dimensions with the axes out of place: length from y, width from x
calculate_dimensions_swapped(bounds) ==
  [length |-> RoundHalfEven((bounds[2][2] - bounds[1][2]) * FtPerM, 1000),
   width |-> RoundHalfEven((bounds[2][1] - bounds[1][1]) * FtPerM, 1000),
   height |-> RoundHalfEven((bounds[2][3] - bounds[1][3]) * FtPerM, 1000)]

\* roof_measurements.py calculate_dimensions(mesh): bounds is mesh.bounds, the
\* two corners of the axis-aligned bounding box in whole metres; the results
\* are float(f"{extent * 3.28084:.2f}"), in hundredths of a foot
calculate_dimensions(bounds) ==
  [length |-> RoundHalfEven((bounds[2][1] - bounds[1][1]) * FtPerM, 1000),
   width |-> RoundHalfEven((bounds[2][2] - bounds[1][2]) * FtPerM, 1000),
   height |-> RoundHalfEven((bounds[2][3] - bounds[1][3]) * FtPerM, 1000)]

\* the box meshes: the corners of the box, as create_fallback_mesh writes the
\* cube from (-1, -1, -1) to (1, 1, 1)
Boxes ==
  {<<lo, <<lo[1] + e[1], lo[2] + e[2], lo[3] + e[3]>>>> :
     lo \in (-1..0) \X (-1..0) \X (-1..0),
     e \in (1..MaxExtent) \X (1..MaxExtent) \X (1..MaxExtent)}

\* mesh.area_faces of a box, in units of 1/AreaDen square metres: every side is
\* two triangles of half its area
box_area_faces(bounds) ==
  LET e == [a \in 1..3 |-> bounds[2][a] - bounds[1][a]]
      side(a, b) == Repeat(4, (e[a] * e[b] * AreaDen) \div 2)
  IN  side(1, 2) \o side(2, 3) \o side(1, 3)

\* images.txt as the COLMAP model converter writes it: a comment line, then two
\* lines per image, the image record (IMAGE_ID QW QX QY QZ TX TY TZ CAMERA_ID
\* NAME) and the line of its tracked points (X Y POINT3D_ID ...), which is empty
\* for an image without tracked points.  has_points[i] says whether image i has
\* tracked points.
images_txt(has_points) ==
  <<[kind |-> "comment", image_id |-> 0]>>
    \o Flatten([i \in DOMAIN has_points |->
                  <<[kind |-> "image", image_id |-> i],
                    [kind |-> IF has_points[i] THEN "points" ELSE "blank", image_id |-> i]>>])

ImagesTxtFiles == {images_txt(h) : h \in SeqsOf(BOOLEAN, 1, MaxImages)}

\* convert_colmap_to_transforms, the loop over the lines of images.txt from line
\* k on: the image ids of the dict `images` in the order of insertion, or
\* "error" when a line raises (int(parts[0]) on the X coordinate of a point)
RECURSIVE read_images(_, _, _, _)
read_images(lines, k, line_number, images) ==
  IF k > Len(lines) THEN [raised |-> FALSE, images |-> images]
  ELSE IF lines[k].kind \in {"comment", "blank"}
  THEN read_images(lines, k + 1, line_number, images)
  ELSE IF line_number % 2 = 0
  THEN IF lines[k].kind = "image"
       THEN read_images(lines, k + 1, line_number + 1,
                        IF \E j \in DOMAIN images : images[j] = lines[k].image_id
                        THEN images ELSE Append(images, lines[k].image_id))
       ELSE [raised |-> TRUE, images |-> images]
  ELSE read_images(lines, k + 1, line_number + 1, images)

\* convert_colmap_to_transforms: the file paths of the frames written to
\* transforms.json, one per entry of `images`; nothing is written and False is
\* returned when reading raises
colmap_frames(lines) ==
  LET r == read_images(lines, 1, 0, <<>>)
  IN  IF r.raised THEN [ok |-> FALSE, frames |-> <<>>]
      ELSE [ok |-> TRUE, frames |-> r.images]

\* no function call is modelled in a run of one of the programs
NoCalc == [fn |-> "", in |-> <<>>, out |-> <<>>]

\* the total area of a loaded mesh as each of the three programs reports it
F_total_area ==
  /\ variant = "function"
  /\ calc.fn = "total_area" /\ calc.out = <<>>
  /\ calc' = [calc EXCEPT !.out = <<[rm |-> RM_area_total(calc.in),
                                      sv |-> SV_area_total(calc.in),
                                      rs |-> RS_area_total(calc.in)]>>]
  /\ UNCHANGED <<variant, rsVars, svVars, rd, pr>>

\* server.py calculate_roof_measurements: the "area" section of the measurements
F_area_sections ==
  /\ variant = "function"
  /\ calc.fn = "area_sections" /\ calc.out = <<>>
  /\ calc' = [calc EXCEPT !.out =
                 <<[total |-> SV_area_total(calc.in.area_faces),
                    sections |-> segment_roof_planes(calc.in.area_faces, calc.in.labels)]>>]
  /\ UNCHANGED <<variant, rsVars, svVars, rd, pr>>

\* the features of a mesh as server.py and roof_measurements.py detect them
F_features ==
  /\ variant = "function"
  /\ calc.fn = "features" /\ calc.out = <<>>
  /\ calc' = [calc EXCEPT !.out = <<[sv |-> detect_roof_features(calc.in),
                                      rm |-> detect_features(calc.in)]>>]
  /\ UNCHANGED <<variant, rsVars, svVars, rd, pr>>

\* the synthetic camera rig for a list of image files
F_fallback_frames ==
  /\ variant = "function"
  /\ calc.fn = "fallback_frames" /\ calc.out = <<>>
  /\ calc' = [calc EXCEPT !.out = <<fallback_frames(calc.in)>>]
  /\ UNCHANGED <<variant, rsVars, svVars, rd, pr>>

\* convert_to_nerf_format applied to a transform, then to its own result
F_convert_to_nerf_format ==
  /\ variant = "function"
  /\ calc.fn = "convert_to_nerf_format" /\ Len(calc.out) < 2
  /\ calc' = [calc EXCEPT !.out =
                 Append(@, convert_to_nerf_format(IF @ = <<>> THEN calc.in ELSE @[Len(@)]))]
  /\ UNCHANGED <<variant, rsVars, svVars, rd, pr>>

\* quaternion_to_rotation_matrix applied to a unit quaternion
F_quaternion_to_rotation_matrix ==
  /\ variant = "function"
  /\ calc.fn = "quaternion_to_rotation_matrix" /\ calc.out = <<>>
  /\ calc' = [calc EXCEPT !.out = <<quaternion_to_rotation_matrix(calc.in.qvec, calc.in.den)>>]
  /\ UNCHANGED <<variant, rsVars, svVars, rd, pr>>

\* measurement extraction, run a first and a second time on the same mesh file
F_measure(state) ==
  /\ variant = "function"
  /\ calc.fn = "measure" /\ Len(calc.out) < 2
  /\ calc' = [calc EXCEPT !.out = Append(@, Measure(calc.in.program, calc.in.load, state))]
  /\ UNCHANGED <<variant, rsVars, svVars, rd, pr>>

\* calculate_roof_pitch applied to the faces of a mesh
F_calculate_roof_pitch ==
  /\ variant = "function"
  /\ calc.fn = "calculate_roof_pitch" /\ calc.out = <<>>
  /\ calc' = [calc EXCEPT !.out = <<calculate_roof_pitch(calc.in)>>]
  /\ UNCHANGED <<variant, rsVars, svVars, rd, pr>>

\* the pitch of one segment
F_segment_pitch ==
  /\ variant = "function"
  /\ calc.fn = "segment_pitch" /\ calc.out = <<>>
  /\ calc' = [calc EXCEPT !.out = <<segment_pitch(calc.in)>>]
  /\ UNCHANGED <<variant, rsVars, svVars, rd, pr>>

\* the primary pitch of a mesh as each of the programs reports it
F_pitch ==
  /\ variant = "function"
  /\ calc.fn = "pitch" /\ calc.out = <<>>
  /\ calc' = [calc EXCEPT !.out = <<[roof_measurements |-> RM_pitch(calc.in),
                                      server |-> SV_pitch(calc.in),
                                      roof_server |-> RS_pitch(calc.in)]>>]
  /\ UNCHANGED <<variant, rsVars, svVars, rd, pr>>

\* roof_measurements.py process_roof_model on a box mesh: area and dimensions
F_process_roof_model ==
  /\ variant = "function"
  /\ calc.fn = "process_roof_model" /\ calc.out = <<>>
  /\ calc' = [calc EXCEPT !.out =
                 <<[area_total |-> RM_area_total(box_area_faces(calc.in)),
                    dimensions |-> calculate_dimensions(calc.in)]>>]
  /\ UNCHANGED <<variant, rsVars, svVars, rd, pr>>

\* convert_colmap_to_transforms applied to an images.txt
F_colmap_frames ==
  /\ variant = "function"
  /\ calc.fn = "colmap_frames" /\ calc.out = <<>>
  /\ calc' = [calc EXCEPT !.out = <<colmap_frames(calc.in)>>]
  /\ UNCHANGED <<variant, rsVars, svVars, rd, pr>>

FInputs ==
  {[fn |-> "total_area", in |-> a, out |-> <<>>] : a \in FaceAreas}
    \cup {[fn |-> "features", in |-> c, out |-> <<>>] : c \in ComponentLists}
    \cup {[fn |-> "fallback_frames", in |-> [i \in 1..n |-> i], out |-> <<>>] :
            n \in MinImages..MaxRigImages}
    \cup {[fn |-> "convert_to_nerf_format", in |-> m, out |-> <<>>] : m \in Transforms}
    \cup {[fn |-> "quaternion_to_rotation_matrix", in |-> q, out |-> <<>>] :
            q \in UnitQuaternions}
    \cup {[fn |-> "measure", in |-> [program |-> p, load |-> l], out |-> <<>>] :
            p \in MeasurePrograms, l \in LoadOutcomes}
    \cup {[fn |-> "calculate_roof_pitch", in |-> f, out |-> <<>>] : f \in PitchFaces}
    \cup {[fn |-> "colmap_frames", in |-> f, out |-> <<>>] : f \in ImagesTxtFiles}
    \cup {[fn |-> "segment_pitch", in |-> t, out |-> <<>>] : t \in Tilts}
    \cup {[fn |-> "pitch", in |-> t, out |-> <<>>] : t \in TiltLists}
    \cup {[fn |-> "process_roof_model", in |-> b, out |-> <<>>] : b \in Boxes}
    \cup {[fn |-> "area_sections", in |-> m, out |-> <<>>] : m \in PatchMeshes}

FNext ==
  \/ F_total_area
  \/ F_area_sections
  \/ F_features
  \/ F_fallback_frames
  \/ F_convert_to_nerf_format
  \/ F_quaternion_to_rotation_matrix
  \/ \E state \in 1..MaxRandom : F_measure(state)
  \/ F_calculate_roof_pitch
  \/ F_colmap_frames
  \/ F_segment_pitch
  \/ F_pitch
  \/ F_process_roof_model

\* ------------------------------------------------------------------ claims
Terminal == {"complete", "error"}

\* the keys every report must have
StructurallyValid(m) == (AreaPitchDims \cup FeatureCounts) \subseteq DOMAIN m

HasReport(rec) ==
  "measurements" \in DOMAIN rec /\ StructurallyValid(rec.measurements)

\* the accuracy annotation of a placeholder report
LowConfidence(m) ==
  /\ "accuracy.estimated" \in DOMAIN m /\ m["accuracy.estimated"] = "true"
  /\ "accuracy.confidence" \in DOMAIN m /\ m["accuracy.confidence"] = "low"

ValidImages(id) == {f \in images_dir[id] : is_valid_image(f)}

\* C1: with at least 3 valid images, every failure of the external pose recovery
\* yields a synthetic pose set and the job goes on; no job ends in error because
\* pose recovery failed.
C1_PoseFailureFallsBack ==
  /\ \A t \in Threads :
       /\ rs[t].pc = "extracted" /\ rs[t].last[1] = "colmap" /\ rs[t].last[2] # "converted"
            => rs[t].success /\ rs[t].job_id \in DOMAIN transforms
                 /\ transforms[rs[t].job_id].tag = "synthetic"
       /\ rs[t].pc = "done" => rs[t].last[1] # "colmap"
  /\ \A t \in Threads : sv[t].pc = "done" => sv[t].last[1] # "colmap"

\* C2: a record whose status is complete carries a report with area (total, unit),
\* pitch (primary, degrees), dimensions (length, width, height) and feature counts.
C2_CompleteHasReport ==
  /\ \A id \in DOMAIN job_status :
       job_status[id].status = "complete" => HasReport(job_status[id])
  /\ \A id \in DOMAIN active_jobs :
       active_jobs[id].status = "complete" => HasReport(active_jobs[id])
  /\ (DOMAIN pr.status_file # {} /\ pr.status_file.status = "complete")
       => DOMAIN pr.result_file # {} /\ HasReport(pr.result_file)

\* a job completed although its mesh could not be loaded or was never found
C2_Witness ==
  \/ \E id \in DOMAIN job_status :
       /\ job_status[id].status = "complete"
       /\ job_status[id].measurements = generate_estimated_measurements
  \/ \E id \in DOMAIN active_jobs :
       /\ active_jobs[id].status = "complete"
       /\ active_jobs[id].measurements = SV_fallback_measurements
  \/ /\ DOMAIN pr.status_file # {} /\ pr.status_file.status = "complete"
     /\ "error" \in DOMAIN pr.result_file.measurements

\* C3: when loading or processing the mesh fails, the report returned has
\* accuracy.estimated = true and accuracy.confidence = "low".
C3_LoadFailureIsLowConfidence ==
  /\ \A t \in Threads :
       rs[t].last = <<"load", "error">> => LowConfidence(rs[t].job.measurements)
  /\ \A t \in Threads :
       sv[t].last = <<"load", "error">> => LowConfidence(sv[t].measurements)
  /\ pr.last = <<"load", "error">> => LowConfidence(pr.measurements)

\* C4: a report computed from a synthetic pose set or from the fallback cube has
\* confidence low and estimated true; confidence high or medium occurs only on
\* reports of a real reconstructed mesh.
C4_FallbackDataIsLowConfidence ==
  /\ \A t \in Threads :
       (/\ rs[t].job.status = "complete"
        /\ \/ transforms[rs[t].job_id].tag = "synthetic"
           \/ model_obj[rs[t].job_id].kind = "fallback")
         => LowConfidence(rs[t].job.measurements)
  /\ \A t \in Threads :
       (/\ "accuracy.confidence" \in DOMAIN sv[t].measurements
        /\ sv[t].measurements["accuracy.confidence"] \in {"high", "medium"})
         => sv[t].last = <<"load", "loaded">>

\* C5: with fewer than 3 valid images pose extraction fails with the
\* insufficient-images error, writes no pose document, and the job never becomes
\* complete; server.py creates no job for such an upload.
C5_InsufficientImagesIsFatal ==
  [][/\ \A t \in Threads :
          /\ (/\ rs[t].pc = "colmap" /\ rs'[t].pc = "extracted"
              /\ Cardinality(ValidImages(rs[t].job_id)) < 3)
               => /\ ~rs'[t].success
                  /\ rs'[t].result = "Not enough images"
                  /\ transforms' = transforms
          /\ rs[t].result = "Not enough images"
               => /\ rs'[t].result = "Not enough images"
                  /\ rs'[t].pc \in {"extracted", "done"}
                  /\ rs'[t].job.status # "complete"
                  /\ rs'[t].pc = "done" => rs'[t].job.status = "error"
     /\ \A t \in Threads :
          /\ (sv[t].pc = "upload" /\ sv'[t].pc # "upload" /\ sv'[t].file_count < 3)
               => sv'[t].pc = "rejected"
          /\ sv[t].pc = "rejected"
               => sv'[t].pc = "rejected" /\ t \notin DOMAIN active_jobs'
    ]_vars

\* a job with two images has ended in error with the insufficient-images message
C5_Witness ==
  \E t \in Threads :
    /\ rs[t].pc = "done" /\ rs[t].result = "Not enough images"
    /\ Cardinality(ValidImages(rs[t].job_id)) < 3
    /\ job_status[rs[t].job_id].status = "error"

InLock ==
  Cardinality({t \in Threads : sv[t].held}) + Cardinality({r \in Readers : rd[r] = "locked"})
    + (IF cl = "locked" THEN 1 ELSE 0)

\* C6: at most one thread is inside `with jobs_lock` at a time, and a record that
\* a reader reads with status complete has progress 100 and the measurements of
\* the job.
C6_ExclusiveWritersWholeRecords ==
  /\ InLock <= 1
  /\ (\E r \in Readers : rd[r] \in {"locked", "serialize"})
       => \A id \in DOMAIN active_jobs :
            active_jobs[id].status = "complete"
              => /\ active_jobs[id].progress = 100
                 /\ "measurements" \in DOMAIN active_jobs[id]
                 /\ active_jobs[id].measurements = sv[id].measurements
  /\ \A id \in DOMAIN job_status :
       job_status[id].status = "complete"
         => job_status[id].progress = 100 /\ "measurements" \in DOMAIN job_status[id]

\* a reader holds the lock and reads a complete record while a worker thread
\* waits to write
C6_Witness ==
  /\ \E r \in Readers : rd[r] = "locked"
  /\ \E id \in DOMAIN active_jobs : active_jobs[id].status = "complete"
  /\ \E t \in Threads : sv[t].pc \in SVLockPoints /\ ~sv[t].held

\* C7: a reader that wants to read is never kept waiting by another reader.
C7_ReadersNeverBlock ==
  \A r \in Readers :
    (rd[r] = "request" /\ \E r2 \in Readers \ {r} : rd[r2] = "locked")
      => CanAcquire(jobs_lock)

\* C8: two submissions never share a job directory, and the pose document, model
\* snapshot and mesh a job uses were produced by that job.
C8_JobScopedStorage ==
  /\ \A t1, t2 \in Threads :
       (t1 # t2 /\ rs[t1].job_id # 0) => rs[t1].job_id # rs[t2].job_id
  /\ \A t \in Threads :
       /\ rs[t].pc = "train" => transforms[rs[t].job_id].owner = t
       /\ rs[t].pc = "export" => model_ingp[rs[t].job_id].owner = t
       /\ rs[t].pc = "measure" => model_obj[rs[t].job_id].owner = t

\* C9: a job whose pipeline has ended has a terminal status, complete or error,
\* recorded for it.
C9_EndsTerminal ==
  /\ \A t \in Threads : rs[t].pc = "done" => rs[t].job.status \in Terminal
  /\ \A t \in Threads :
       sv[t].pc = "done" => t \in DOMAIN active_jobs /\ active_jobs[t].status \in Terminal
  /\ pr.pc \in {"returned", "raised"} => pr.status_file.status \in Terminal

\* C10: after any failure of the training or export tool the job still ends
\* complete with a report.
C10_ToolFailureStillCompletes ==
  /\ \A t \in Threads :
       (rs[t].pc = "done" /\ rs[t].last[1] \in {"train", "export"})
         => rs[t].job.status = "complete"
  /\ \A t \in Threads :
       (sv[t].pc = "done" /\ sv[t].last[1] \in {"train", "export"})
         => t \in DOMAIN active_jobs /\ active_jobs[t].status = "complete"

\* C11: when the pose document cannot be written, on the recovered-pose path or
\* on the synthetic-rig path, pose extraction reports failure and the job ends in
\* error; a job that goes on to reconstruction has a complete pose document that
\* it wrote itself.
C11_PoseWriteFailureIsFatal ==
  \A t \in Threads :
    /\ (rs[t].pc = "extracted" /\ rs[t].last[2] \in {"write_error", "dump_error"})
         => ~rs[t].success
    /\ rs[t].result = "Error creating fallback transforms" => ~rs[t].success
    /\ rs[t].pc = "train"
         => /\ rs[t].job_id \in DOMAIN transforms
            /\ transforms[rs[t].job_id].tag \in {"recovered", "synthetic"}

\* the exact area in square feet over SqFtDen: every face area times 10.764
RECURSIVE ExactSqFt(_)
ExactSqFt(area_faces) ==
  IF area_faces = <<>> THEN 0
  ELSE area_faces[1] * SqFtPerSqM + ExactSqFt(Tail(area_faces))

C13_SegmentAreasWithinTotal ==
  (calc.fn = "area_sections" /\ calc.out # <<>>)
    => LET r == calc.out[1]
       IN  Sum([k \in DOMAIN r.sections |-> r.sections[k].area]) <= r.total

\* C14: a connected component whose area is more than 10% of the area of the
\* mesh is never counted as a chimney, vent, skylight or other feature.
C14_LargeComponentIsRoofBody ==
  (calc.fn = "features" /\ calc.out # <<>>)
    => LET mesh_area == Sum([k \in DOMAIN calc.in |-> calc.in[k].area])
       IN  \A k \in DOMAIN calc.in :
             10 * calc.in[k].area > mesh_area
               => /\ calc.out[1].sv.counted[k] = ""
                  /\ calc.out[1].rm.counted[k] = ""

\* the camera position and the viewing direction of a frame: the transform is
\* rotation @ translation(-position), so position = -(rotation^T . t), and the
\* third row of the rotation is -forward
CameraPosition(m) ==
  <<-Div(m[1][1] * m[1][4] + m[2][1] * m[2][4] + m[3][1] * m[3][4], Scale),
    -Div(m[1][2] * m[1][4] + m[2][2] * m[2][4] + m[3][2] * m[3][4], Scale),
    -Div(m[1][3] * m[1][4] + m[2][3] * m[2][4] + m[3][3] * m[3][4], Scale)>>
CameraForward(m) == <<-m[3][1], -m[3][2], -m[3][3]>>

\* a and b differ by at most one percent of b (b > 0)
Near(a, b) == 100 * Abs(a - b) <= b

\* the viewing direction of the frame points from the camera to the origin, to
\* within one percent
LooksAtOrigin(m) ==
  LET pos == CameraPosition(m)
      c == Cross(CameraForward(m), pos)
  IN  /\ Dot(CameraForward(m), Neg(pos)) > 0
      /\ \A j \in 1..3 : 100 * Abs(c[j]) <= Norm(pos)

OnePosePerImage ==
  /\ Len(calc.out[1]) = Len(calc.in)
  /\ \A k \in DOMAIN calc.in : calc.out[1][k].file_path = calc.in[k]

C16_FlipIsInvolution ==
  (calc.fn = "convert_to_nerf_format" /\ Len(calc.out) = 2) => calc.out[2] = calc.in

\* the conversion was applied twice to a transform that it changes
C16_Witness ==
  /\ calc.fn = "convert_to_nerf_format" /\ Len(calc.out) = 2
  /\ calc.out[1] # calc.in

\* the determinant of a 3x3 matrix
Det3(r) ==
  r[1][1] * (r[2][2] * r[3][3] - r[2][3] * r[3][2])
    - r[1][2] * (r[2][1] * r[3][3] - r[2][3] * r[3][1])
    + r[1][3] * (r[2][1] * r[3][2] - r[2][2] * r[3][1])

\* C17: for a unit quaternion the matrix of the quaternion-to-rotation
\* conversion is orthonormal (R R^T = I) and has determinant 1.  The entries of R
\* are kept over den^2, so R R^T = I reads N N^T = den^4 I and det R = 1 reads
\* det N = den^6.
C17_RotationIsOrthonormal ==
  (calc.fn = "quaternion_to_rotation_matrix" /\ calc.out # <<>>)
    => LET r == calc.out[1]
           d2 == calc.in.den * calc.in.den
       IN  /\ \A i, j \in 1..3 :
                r[i][1] * r[j][1] + r[i][2] * r[j][2] + r[i][3] * r[j][3]
                  = IF i = j THEN d2 * d2 ELSE 0
           /\ Det3(r) = d2 * d2 * d2

\* the conversion was applied to a quaternion with four non-zero components
C17_Witness ==
  /\ calc.fn = "quaternion_to_rotation_matrix" /\ calc.out # <<>>
  /\ \A k \in 1..4 : calc.in.qvec[k] # 0
  /\ \E k \in 1..4 : calc.in.qvec[k] < 0

\* C18: two runs of measurement extraction on the same mesh file, one that
\* cannot be loaded included, give the same report.
C18_MeasurementIsDeterministic ==
  (calc.fn = "measure" /\ Len(calc.out) = 2) => calc.out[1] = calc.out[2]

\* C19: for a mesh with an upward-facing face, the angles averaged for the
\* primary pitch are those of the upward faces in the most populated histogram
\* bin, there is at least one of them, and the primary pitch angle is a number
\* between the smallest and the largest upward-face angle.
C19_PrimaryPitchIsMeanOfFullestBin ==
  (/\ calc.fn = "calculate_roof_pitch" /\ calc.out # <<>>
   /\ \E k \in DOMAIN calc.in : calc.in[k].up)
    => LET r == calc.out[1]
           up_angles == {calc.in[k].angle : k \in {j \in DOMAIN calc.in : calc.in[j].up}}
       IN  /\ r.members # <<>> /\ ~r.nan
           /\ r.members = r.in_bin
           /\ \E a \in up_angles : 10 * a <= r.degrees
           /\ \E a \in up_angles : 10 * a >= r.degrees

\* C20: parsing images.txt gives one frame for every image record, in order; no
\* line of tracked points, empty or not, is read as an image record or makes an
\* image record be skipped.
C20_OneFramePerImageRecord ==
  (calc.fn = "colmap_frames" /\ calc.out # <<>>)
    => /\ calc.out[1].ok
       /\ LET records == SelectSeq(calc.in, LAMBDA l : l.kind = "image")
          IN  calc.out[1].frames = [k \in DOMAIN records |-> records[k].image_id]

\* C21: every component that is not roof body (area at most 10% of the mesh) is
\* counted in exactly one category, so the reported total of features is the
\* number of those components and is the sum of the per-category counts, in
\* both feature detectors.
C21_EveryFeatureCountedOnce ==
  (calc.fn = "features" /\ calc.out # <<>>)
    => LET mesh_area == Sum([k \in DOMAIN calc.in |-> calc.in[k].area])
           features == {k \in DOMAIN calc.in : 10 * calc.in[k].area <= mesh_area}
           by_shape == calc.out[1].sv
           by_area == calc.out[1].rm
       IN  /\ \A k \in features : by_shape.counted[k] # ""
           /\ by_shape.total_features = Cardinality(features)
           /\ by_shape.total_features = by_shape.chimneys + by_shape.vents + by_shape.skylights
           /\ by_area.total_components
                = by_area.chimneys + by_area.vents + by_area.skylights + by_area.other_features

\* C22: the pitch of a segment is taken from arccos(|normal . up|), so for every
\* cluster, one facing down included, the reported angle is within 0..90 degrees
\* and the rise is not negative.
C22_SegmentPitchWithinQuarterTurn ==
  (calc.fn = "segment_pitch" /\ calc.out # <<>>)
    => /\ calc.out[1].degrees10 = 10 * arccos(Abs(NormalZ(calc.in)))
       /\ calc.out[1].degrees10 \in 0..900
       /\ calc.out[1].rise10 >= 0

\* C23: every program reports the pitch as "rise:12" with the integer rise
\* round(tan(angle) * 12) of the angle it reports, and a mesh of one face tilted
\* 30 degrees from horizontal gives degrees 30 and "7:12".
C23_PitchIsIntegerRiseOver12 ==
  (calc.fn = "pitch" /\ calc.out # <<>>)
    => \A program \in DOMAIN calc.out[1] :
         LET p == calc.out[1][program]
         IN  /\ (~p.unknown /\ ~p.nan)
                  => /\ p.decimals = 0 /\ p.sep = ":"
                     /\ p.rise10 = 10 * RoundHalfEven(tan12(p.degrees10), 1000)
             /\ calc.in = <<30>>
                  => p = Pitch(70, 0, ":", 300)

\* C24: when no face of the mesh points upward (no normal has a positive dot
\* product with the up vector), every program reports the pitch as unknown with
\* degrees 0, and no undefined number.
C24_NoUpwardFaceIsUnknown ==
  (/\ calc.fn = "pitch" /\ calc.out # <<>>
   /\ \A k \in DOMAIN calc.in : NormalZ(calc.in[k]) <= 0)
    => \A program \in DOMAIN calc.out[1] : calc.out[1][program] = UnknownPitch

\* C25: the segments of a report are in the order of non-increasing area; every
\* cluster of faces has one segment, whose area is that of the faces of the
\* cluster, and the noise faces (label -1) are in no segment.
C25_SegmentsByDescendingArea ==
  (calc.fn = "area_sections" /\ calc.out # <<>>)
    => LET sections == calc.out[1].sections
           labels == calc.in.labels
           area_faces == calc.in.area_faces
           clusters == {labels[k] : k \in DOMAIN labels} \ {-1}
           area_of(i) == Sum([k \in DOMAIN labels |->
                                IF labels[k] = i THEN area_faces[k] ELSE 0])
       IN  /\ \A k \in 1..(Len(sections) - 1) : sections[k].area >= sections[k + 1].area
           /\ Len(sections) = Cardinality(clusters)
           /\ \A i \in clusters :
                \E k \in DOMAIN sections :
                  /\ sections[k].id = i
                  /\ sections[k].area = RoundHalfEven(area_of(i) * SqFtPerSqM, SqFtDen)

\* a report with a noise face whose larger segment is the cluster of the higher id
C25_Witness ==
  /\ calc.fn = "area_sections" /\ calc.out # <<>>
  /\ \E k \in DOMAIN calc.in.labels : calc.in.labels[k] = -1
  /\ Len(calc.out[1].sections) = 2
  /\ calc.out[1].sections[1].id = 1
  /\ calc.out[1].sections[1].area > calc.out[1].sections[2].area

\* C26: each dimension is the extent of the bounding box along its own axis
\* times 3.28084, to the nearest hundredth of a foot (length from x, width from
\* y, height from z); the cube of 2 x 2 x 2 metres has area.total 258.34 and
\* dimensions 6.56, 6.56, 6.56.
C26_DimensionsAreBoxExtents ==
  (calc.fn = "process_roof_model" /\ calc.out # <<>>)
    => LET d == calc.out[1].dimensions
           extent(a) == calc.in[2][a] - calc.in[1][a]
           nearest(hundredths, a) == 2 * Abs(1000 * hundredths - extent(a) * FtPerM) <= 1000
       IN  /\ nearest(d.length, 1) /\ nearest(d.width, 2) /\ nearest(d.height, 3)
           /\ calc.in = <<<<-1, -1, -1>>, <<1, 1, 1>>>>
                => /\ calc.out[1].area_total = 25834
                   /\ d = [length |-> 656, width |-> 656, height |-> 656]

\* the report of the cube of 2 x 2 x 2 metres
C26_Witness ==
  /\ calc.fn = "process_roof_model" /\ calc.out # <<>>
  /\ calc.in = <<<<-1, -1, -1>>, <<1, 1, 1>>>>
  /\ calc.out[1].dimensions.height = 656

\* C27: once the status of a job has been written as error or complete, no
\* later write of the pipeline of that job changes the status.
C27_TerminalStatusIsAbsorbing ==
  [][/\ \A t \in Threads :
          rs[t].job.status \in Terminal => rs'[t].job.status = rs[t].job.status
     /\ \A t \in Threads :
          (/\ t \in DOMAIN active_jobs /\ t \in DOMAIN active_jobs'
           /\ active_jobs[t].status \in Terminal)
            => active_jobs'[t].status = active_jobs[t].status
     /\ (DOMAIN pr.status_file # {} /\ pr.status_file.status \in Terminal)
          => pr'.status_file.status = pr.status_file.status]_vars

\* C28: from the record created at upload on, the progress written for a job
\* never decreases from one write to the next while the job is not in error.
C28_ProgressNeverDecreases ==
  [][/\ \A id \in (DOMAIN job_status) \cap (DOMAIN job_status') :
          (job_status[id].status # "error" /\ job_status'[id].status # "error")
            => job_status'[id].progress >= job_status[id].progress
     /\ \A id \in (DOMAIN active_jobs) \cap (DOMAIN active_jobs') :
          (active_jobs[id].status # "error" /\ active_jobs'[id].status # "error")
            => active_jobs'[id].progress >= active_jobs[id].progress
     /\ (/\ DOMAIN pr.status_file # {}
         /\ pr.status_file.status # "error" /\ pr'.status_file.status # "error")
          => pr'.status_file.progress >= pr.status_file.progress]_vars

\* C29: when pose extraction has counted at least 3 valid images and hands over
\* to the synthetic rig, the rig finds at least 3 images too, and the frames it
\* writes are the images that pose extraction counted as valid.
C29_RigSeesTheSameImages ==
  [][\A t \in Threads :
       (/\ rs[t].pc = "colmap" /\ rs'[t].pc = "extracted"
        /\ rs'[t].last[1] = "colmap" /\ rs'[t].last[2] \in ColmapFallbackOutcomes)
         => /\ rs'[t].result # "Not enough images for 3D reconstruction"
            /\ rs'[t].success
                 => transforms'[rs[t].job_id].frames = ValidImages(rs[t].job_id)]_vars

\* C30: once the record of a job whose thread is still running is gone from the
\* registry, no write of that thread brings it back: a status update or
\* completion write for an absent job id leaves the registry as it is.
C30_RemovedRecordStaysRemoved ==
  [][\A t \in Threads :
       (sv[t].pc \notin {"upload", "create", "rejected"} /\ t \notin DOMAIN active_jobs)
         => /\ t \notin DOMAIN active_jobs'
            /\ sv'[t].pc # sv[t].pc => active_jobs' = active_jobs]_vars

\* a thread holds the lock for its completion write and its record has been
\* removed
C30_Witness ==
  \E t \in Threads :
    sv[t].pc = "complete" /\ sv[t].held /\ t \notin DOMAIN active_jobs

\* ------------------------------------------------------------ specification
Init ==
  /\ RSInit
  /\ SVInit
  /\ pr = PRInitRun
  /\ \/ variant \in {"roof_server", "server", "script"} /\ calc = NoCalc
     \/ variant = "function" /\ calc \in FInputs

Next == RSNext \/ SVNext \/ PRNext \/ FNext

Spec == Init /\ [][Next]_vars
====
